---- MODULE Spec2Model ----
(***************************************************************************)
(* State assembler of the ferry dot-state service (backend/dotState.js,    *)
(* held in src/backend/routeConfig.js together with the route catalog),    *)
(* with the terminal resolver and the upstream client it calls.            *)
(*                                                                         *)
(* Time is counted in whole minutes.  An ISO timestamp string and the      *)
(* epoch value it denotes are the same integer here: Date.parse and        *)
(* toISOString are mutually inverse on the valid dates the code handles.   *)
(* A fraction (dotPosition, dockArcFraction) is a record [num, den];       *)
(* den = 0 stands for null.                                                *)
(***************************************************************************)
EXTENDS Integers, Sequences, FiniteSets, TLC

VARIABLES
  clock,                  \* wall clock read by `new Date()`
  dockStateByRoute,       \* routeId -> laneKey -> dock memory entry
  lastGoodLanesByRoute,   \* routeId -> laneKey -> {lane, tMs}
  lastGoodCapacityByRoute,\* routeId -> side -> {data, tMs}
  vesselMaxCapacityById,  \* vesselId -> sticky MaxSpaceCount
  reqs,                   \* the buildDotState calls in flight
  ret                     \* the call that settled last and the value it
                          \* resolved with, until the next call begins

vars == <<clock, dockStateByRoute, lastGoodLanesByRoute,
          lastGoodCapacityByRoute, vesselMaxCapacityById, reqs, ret>>

-----------------------------------------------------------------------------
(* Values *)

NULL == -9999                      \* JavaScript null / undefined
NoEntry == [absent |-> TRUE]       \* no such property / null object

Frac(n, d) == [num |-> n, den |-> d]
NoFrac == Frac(0, 0)
FracZero == Frac(0, 1)
FracOne == Frac(1, 1)
FracEq(a, b) == a.num * b.den = b.num * a.den
FracLeq(a, b) == a.num * b.den <= b.num * a.den

Min(a, b) == IF a <= b THEN a ELSE b

\* The element of a one-element set.  { e : x \in {v} } under The reads
\* "const x = v; e": v is computed once, as an assignment to a local does.
The(S) == CHOOSE e \in S : TRUE

\* Number(x) for the id values the code coerces: Number(null) is 0.
ToNumber(x) == IF x = NULL THEN 0 ELSE x

LaneKeys == {"upper", "lower"}
Sides == {"west", "east"}

-----------------------------------------------------------------------------
(* Program constants, in minutes *)

LAST_GOOD_TTL_MS == 10
CAPACITY_TTL_MS == LAST_GOOD_TTL_MS
BootDockLeadMinutes == 25
DockArcFullMinutes == 60
SyntheticDepartAgo == 10
SyntheticDockedAgo == 5
SyntheticNextDepart == 15

-----------------------------------------------------------------------------
(* Bounds of the model *)

MaxTimeValue == 1000   \* stands for the largest time value of a Date
MaxClock == 15        \* the clock stops advancing here
ClockStep == 5        \* minutes between two readings of the clock

-----------------------------------------------------------------------------
(* Route catalog and terminal resolver *)

ROUTES ==
  << [routeId |-> 5, terminalNameWest |-> "Bainbridge Island",
      terminalNameEast |-> "Seattle", crossingTimeMinutes |-> 35],
     [routeId |-> 1, terminalNameWest |-> "Point Defiance",
      terminalNameEast |-> "Tahlequah", crossingTimeMinutes |-> 15],
     [routeId |-> 3, terminalNameWest |-> "Bremerton",
      terminalNameEast |-> "Seattle", crossingTimeMinutes |-> 60],
     [routeId |-> 6, terminalNameWest |-> "Kingston",
      terminalNameEast |-> "Edmonds", crossingTimeMinutes |-> 30],
     [routeId |-> 7, terminalNameWest |-> "Clinton",
      terminalNameEast |-> "Mukilteo", crossingTimeMinutes |-> 20],
     [routeId |-> 8, terminalNameWest |-> "Port Townsend",
      terminalNameEast |-> "Coupeville", crossingTimeMinutes |-> 35] >>

CatalogIds == {ROUTES[i].routeId : i \in 1..Len(ROUTES)}

\* The first catalog entry with this id, as Array.prototype.find gives it.
FindRoute(routeId) ==
  ROUTES[CHOOSE i \in 1..Len(ROUTES) :
           /\ ROUTES[i].routeId = routeId
           /\ \A j \in 1..(i - 1) : ROUTES[j].routeId # routeId]

\* A faulty variant: an unknown id falls back to the first route of the catalog.
getRouteById_DefaultRoute(routeId) ==
  IF routeId \in CatalogIds THEN FindRoute(routeId) ELSE ROUTES[1]

\* ROUTES.find(...) || null.  The callers pass a number, which Number() keeps.
getRouteById(routeId) ==
  IF routeId \in CatalogIds THEN FindRoute(routeId) ELSE NoEntry

TERMINAL_NAME_TO_ID == [n \in {"Bainbridge Island", "Seattle"} |->
                          IF n = "Bainbridge Island" THEN 3 ELSE 7]

\* The catalog names carry no surrounding blanks, so trim() keeps them.
getTerminalIdByName(name) ==
  IF name \in DOMAIN TERMINAL_NAME_TO_ID THEN TERMINAL_NAME_TO_ID[name] ELSE NULL

getTerminalIdsForRoute(route) ==
  IF route = NoEntry
  THEN [terminalIdWest |-> NULL, terminalIdEast |-> NULL]
  ELSE [terminalIdWest |-> getTerminalIdByName(route.terminalNameWest),
        terminalIdEast |-> getTerminalIdByName(route.terminalNameEast)]

-----------------------------------------------------------------------------
(* Vessel fuser *)

\* `new Date(t).toISOString()` throws a RangeError when t is beyond the range
\* of a Date.  A parsed timestamp is within the range; one computed from it
\* need not be.
RangeError == -9997
Thrown == [thrown |-> TRUE]
toISOString(t) == IF t > MaxTimeValue THEN RangeError ELSE t

pickArrivalTime(rawEtaIso, leftDockIso, crossingMinutes) ==
  IF rawEtaIso # NULL THEN rawEtaIso
  ELSE IF leftDockIso = NULL \/ crossingMinutes <= 0 THEN NULL
  ELSE toISOString(leftDockIso + crossingMinutes)

\* A faulty variant: the elapsed time is set against eta, not the crossing.
computeDotPosition_OverEta(leftDockIso, etaIso, now) ==
  IF leftDockIso = NULL \/ etaIso = NULL THEN FracZero
  ELSE IF etaIso <= leftDockIso THEN FracZero
  ELSE IF now - leftDockIso <= 0 THEN FracZero
  ELSE IF now - leftDockIso >= etaIso - leftDockIso THEN FracOne
  ELSE Frac(now - leftDockIso, etaIso)

\* A faulty variant: the ratio is not capped at 1.
computeDotPosition_Uncapped(leftDockIso, etaIso, now) ==
  IF leftDockIso = NULL \/ etaIso = NULL THEN FracZero
  ELSE IF etaIso <= leftDockIso THEN FracZero
  ELSE IF now - leftDockIso <= 0 THEN FracZero
  ELSE Frac(now - leftDockIso, etaIso - leftDockIso)

computeDotPosition(leftDockIso, etaIso, now) ==
  IF leftDockIso = NULL \/ etaIso = NULL THEN FracZero
  ELSE IF etaIso <= leftDockIso THEN FracZero
  ELSE IF now - leftDockIso <= 0 THEN FracZero
  ELSE IF now - leftDockIso >= etaIso - leftDockIso THEN FracOne
  ELSE Frac(now - leftDockIso, etaIso - leftDockIso)

\* A faulty variant: a vessel sailing east to west keeps its slot's terminals.
deriveDirectionAndTerminals_SlotTerminals(raw, terminalIdWest, terminalIdEast, defaultDirection) ==
  IF /\ raw # NoEntry /\ raw.departingId # NULL /\ raw.arrivingId # NULL
     /\ ToNumber(raw.departingId) = ToNumber(terminalIdWest)
     /\ ToNumber(raw.arrivingId) = ToNumber(terminalIdEast)
  THEN [direction |-> "WEST_TO_EAST", departureTerminalId |-> terminalIdWest,
        arrivalTerminalId |-> terminalIdEast]
  ELSE IF /\ raw # NoEntry /\ raw.departingId # NULL /\ raw.arrivingId # NULL
          /\ ToNumber(raw.departingId) = ToNumber(terminalIdEast)
          /\ ToNumber(raw.arrivingId) = ToNumber(terminalIdWest)
  THEN [direction |-> "EAST_TO_WEST",
        departureTerminalId |-> IF defaultDirection = "WEST_TO_EAST"
                                THEN terminalIdWest ELSE terminalIdEast,
        arrivalTerminalId |-> IF defaultDirection = "WEST_TO_EAST"
                              THEN terminalIdEast ELSE terminalIdWest]
  ELSE IF defaultDirection = "WEST_TO_EAST"
  THEN [direction |-> "WEST_TO_EAST", departureTerminalId |-> terminalIdWest,
        arrivalTerminalId |-> terminalIdEast]
  ELSE IF defaultDirection = "EAST_TO_WEST"
  THEN [direction |-> "EAST_TO_WEST", departureTerminalId |-> terminalIdEast,
        arrivalTerminalId |-> terminalIdWest]
  ELSE [direction |-> "UNKNOWN", departureTerminalId |-> NULL,
        arrivalTerminalId |-> NULL]

deriveDirectionAndTerminals(raw, terminalIdWest, terminalIdEast, defaultDirection) ==
  IF /\ raw # NoEntry /\ raw.departingId # NULL /\ raw.arrivingId # NULL
     /\ ToNumber(raw.departingId) = ToNumber(terminalIdWest)
     /\ ToNumber(raw.arrivingId) = ToNumber(terminalIdEast)
  THEN [direction |-> "WEST_TO_EAST", departureTerminalId |-> terminalIdWest,
        arrivalTerminalId |-> terminalIdEast]
  ELSE IF /\ raw # NoEntry /\ raw.departingId # NULL /\ raw.arrivingId # NULL
          /\ ToNumber(raw.departingId) = ToNumber(terminalIdEast)
          /\ ToNumber(raw.arrivingId) = ToNumber(terminalIdWest)
  THEN [direction |-> "EAST_TO_WEST", departureTerminalId |-> terminalIdEast,
        arrivalTerminalId |-> terminalIdWest]
  ELSE IF defaultDirection = "WEST_TO_EAST"
  THEN [direction |-> "WEST_TO_EAST", departureTerminalId |-> terminalIdWest,
        arrivalTerminalId |-> terminalIdEast]
  ELSE IF defaultDirection = "EAST_TO_WEST"
  THEN [direction |-> "EAST_TO_WEST", departureTerminalId |-> terminalIdEast,
        arrivalTerminalId |-> terminalIdWest]
  ELSE [direction |-> "UNKNOWN", departureTerminalId |-> NULL,
        arrivalTerminalId |-> NULL]

\* opts = [positionNumber, direction, departureTerminalId, arrivalTerminalId,
\*         route, now]; laneId follows positionNumber and is left out.
buildLaneFromVessel(raw, opts) ==
  IF raw = NoEntry
  THEN [vesselPositionNumber |-> opts.positionNumber,
        vesselId |-> NULL,
        atDock |-> TRUE,
        direction |-> opts.direction,
        departureTerminalId |-> opts.departureTerminalId,
        arrivalTerminalId |-> opts.arrivalTerminalId,
        scheduledDeparture |-> NULL,
        leftDock |-> NULL,
        eta |-> NULL,
        phase |-> "UNKNOWN",
        dotPosition |-> FracZero,
        currentArrivalTime |-> NULL,
        dockStartTime |-> NULL,
        dockStartIsSynthetic |-> TRUE,
        dockArcFraction |-> NoFrac,
        lastUpdatedVessels |-> opts.now,
        isStale |-> FALSE]
  ELSE
    LET leftDockIso == IF raw.leftDockIso # NULL THEN raw.leftDockIso
                       ELSE raw.scheduledDepartureIso
        etaIso == pickArrivalTime(raw.etaIso, leftDockIso,
                                  opts.route.crossingTimeMinutes)
        dotPos == computeDotPosition(leftDockIso, etaIso, opts.now)
    IN IF etaIso = RangeError THEN Thrown ELSE
       [vesselPositionNumber |-> opts.positionNumber,
        vesselId |-> raw.vesselId,
        atDock |-> raw.atDock,
        direction |-> opts.direction,
        departureTerminalId |-> opts.departureTerminalId,
        arrivalTerminalId |-> opts.arrivalTerminalId,
        scheduledDeparture |-> raw.scheduledDepartureIso,
        leftDock |-> leftDockIso,
        eta |-> etaIso,
        phase |-> IF raw.atDock THEN "AT_DOCK"
                  ELSE IF etaIso # NULL THEN "UNDERWAY" ELSE "UNKNOWN",
        dotPosition |-> IF raw.atDock THEN FracZero ELSE dotPos,
        currentArrivalTime |-> IF etaIso # NULL THEN etaIso
                               ELSE raw.scheduledDepartureIso,
        dockStartTime |-> IF raw.atDock THEN leftDockIso ELSE NULL,
        dockStartIsSynthetic |-> FALSE,
        dockArcFraction |-> NoFrac,
        lastUpdatedVessels |-> opts.now,
        isStale |-> FALSE]

\* A faulty variant: the snap puts the lane at dock and leaves the dot where it was.
snapStaleLaneToDockIfArrived_KeepsDot(lane, now) ==
  IF ~lane.isStale THEN lane
  ELSE IF lane.eta = NULL THEN lane
  ELSE IF now < lane.eta THEN lane
  ELSE [lane EXCEPT !.atDock = TRUE, !.phase = "AT_DOCK"]

\* A faulty variant: every stale lane with an eta is snapped, arrived or not.
snapStaleLaneToDockIfArrived_AnyStale(lane, now) ==
  IF ~lane.isStale THEN lane
  ELSE IF lane.eta = NULL THEN lane
  ELSE [lane EXCEPT !.atDock = TRUE, !.phase = "AT_DOCK", !.dotPosition = FracOne]

snapStaleLaneToDockIfArrived(lane, now) ==
  IF ~lane.isStale THEN lane
  ELSE IF lane.eta = NULL THEN lane
  ELSE IF now < lane.eta THEN lane
  ELSE [lane EXCEPT !.atDock = TRUE, !.phase = "AT_DOCK", !.dotPosition = FracOne]

-----------------------------------------------------------------------------
(* Dock-arc tracker *)

\* A faulty variant: no fraction is given until some time has elapsed.
DockArcFraction_NullAtZero(dockStartTime, now) ==
  IF now - dockStartTime <= 0 THEN NoFrac
  ELSE IF now - dockStartTime >= DockArcFullMinutes THEN FracOne
  ELSE Frac(now - dockStartTime, DockArcFullMinutes)

\* The dock arc of a lane at dock: the time at dock over 60 minutes, capped.
DockArcFraction(dockStartTime, now) ==
  IF now - dockStartTime <= 0 THEN FracZero
  ELSE IF now - dockStartTime >= DockArcFullMinutes THEN FracOne
  ELSE Frac(now - dockStartTime, DockArcFullMinutes)

\* A faulty variant: the boot value is not clamped to now.
updateDockMetaForLane_BootUnclamped(prev, lane, now) ==
  LET hadPrev == prev # NoEntry
      prevAtDock == IF hadPrev THEN prev.atDock ELSE FALSE
      prevDockStartTimeIso == IF hadPrev THEN prev.dockStartTime ELSE NULL
      prevDockStartIsSynthetic == IF hadPrev THEN prev.dockStartIsSynthetic ELSE FALSE
      dockStartTime ==
        IF ~lane.atDock THEN NULL
        ELSE IF hadPrev /\ prevAtDock /\ prevDockStartTimeIso # NULL
             THEN prevDockStartTimeIso
        ELSE IF hadPrev /\ ~prevAtDock THEN now
        ELSE IF lane.scheduledDeparture # NULL
             THEN lane.scheduledDeparture - BootDockLeadMinutes
        ELSE now
      dockStartIsSynthetic ==
        IF ~lane.atDock THEN FALSE
        ELSE IF hadPrev /\ prevAtDock /\ prevDockStartTimeIso # NULL
             THEN prevDockStartIsSynthetic
        ELSE IF hadPrev /\ ~prevAtDock THEN FALSE
        ELSE TRUE
      dockArcFraction ==
        IF ~lane.atDock THEN NoFrac ELSE DockArcFraction(dockStartTime, now)
  IN [lane |-> [lane EXCEPT !.dockStartTime = dockStartTime,
                            !.dockStartIsSynthetic = dockStartIsSynthetic,
                            !.dockArcFraction = dockArcFraction],
      state |-> [atDock |-> lane.atDock,
                 dockStartTime |-> dockStartTime,
                 dockStartIsSynthetic |-> dockStartIsSynthetic]]

\* A faulty variant: a lane that stays at dock gets a new start time.
updateDockMetaForLane_RestampsAtDock(prev, lane, now) ==
  LET hadPrev == prev # NoEntry
      prevAtDock == IF hadPrev THEN prev.atDock ELSE FALSE
      prevDockStartTimeIso == IF hadPrev THEN prev.dockStartTime ELSE NULL
      prevDockStartIsSynthetic == IF hadPrev THEN prev.dockStartIsSynthetic ELSE FALSE
      dockStartTime ==
        IF ~lane.atDock THEN NULL
        ELSE IF hadPrev /\ prevAtDock /\ prevDockStartTimeIso # NULL
             THEN now
        ELSE IF hadPrev /\ ~prevAtDock THEN now
        ELSE IF lane.scheduledDeparture # NULL
             THEN Min(lane.scheduledDeparture - BootDockLeadMinutes, now)
        ELSE now
      dockStartIsSynthetic ==
        IF ~lane.atDock THEN FALSE
        ELSE IF hadPrev /\ prevAtDock /\ prevDockStartTimeIso # NULL
             THEN prevDockStartIsSynthetic
        ELSE IF hadPrev /\ ~prevAtDock THEN FALSE
        ELSE TRUE
      dockArcFraction ==
        IF ~lane.atDock THEN NoFrac ELSE DockArcFraction(dockStartTime, now)
  IN [lane |-> [lane EXCEPT !.dockStartTime = dockStartTime,
                            !.dockStartIsSynthetic = dockStartIsSynthetic,
                            !.dockArcFraction = dockArcFraction],
      state |-> [atDock |-> lane.atDock,
                 dockStartTime |-> dockStartTime,
                 dockStartIsSynthetic |-> dockStartIsSynthetic]]

\* A faulty variant: a lane that has just docked gets the boot estimate too.
updateDockMetaForLane_BootOnEntry(prev, lane, now) ==
  LET hadPrev == prev # NoEntry
      prevAtDock == IF hadPrev THEN prev.atDock ELSE FALSE
      prevDockStartTimeIso == IF hadPrev THEN prev.dockStartTime ELSE NULL
      prevDockStartIsSynthetic == IF hadPrev THEN prev.dockStartIsSynthetic ELSE FALSE
      dockStartTime ==
        IF ~lane.atDock THEN NULL
        ELSE IF hadPrev /\ prevAtDock /\ prevDockStartTimeIso # NULL
             THEN prevDockStartTimeIso
        ELSE IF lane.scheduledDeparture # NULL
             THEN Min(lane.scheduledDeparture - BootDockLeadMinutes, now)
        ELSE now
      dockStartIsSynthetic ==
        IF ~lane.atDock THEN FALSE
        ELSE IF hadPrev /\ prevAtDock /\ prevDockStartTimeIso # NULL
             THEN prevDockStartIsSynthetic
        ELSE TRUE
      dockArcFraction ==
        IF ~lane.atDock THEN NoFrac ELSE DockArcFraction(dockStartTime, now)
  IN [lane |-> [lane EXCEPT !.dockStartTime = dockStartTime,
                            !.dockStartIsSynthetic = dockStartIsSynthetic,
                            !.dockArcFraction = dockArcFraction],
      state |-> [atDock |-> lane.atDock,
                 dockStartTime |-> dockStartTime,
                 dockStartIsSynthetic |-> dockStartIsSynthetic]]

\* prev is dockStateByRoute[routeId][laneKey], or NoEntry.  The result holds
\* the annotated lane and the entry persisted for the next poll.
updateDockMetaForLane(prev, lane, now) ==
  LET hadPrev == prev # NoEntry
      prevAtDock == IF hadPrev THEN prev.atDock ELSE FALSE
      prevDockStartTimeIso == IF hadPrev THEN prev.dockStartTime ELSE NULL
      prevDockStartIsSynthetic == IF hadPrev THEN prev.dockStartIsSynthetic ELSE FALSE
      dockStartTime ==
        IF ~lane.atDock THEN NULL
        ELSE IF hadPrev /\ prevAtDock /\ prevDockStartTimeIso # NULL
             THEN prevDockStartTimeIso
        ELSE IF hadPrev /\ ~prevAtDock THEN now
        ELSE IF lane.scheduledDeparture # NULL
             THEN Min(lane.scheduledDeparture - BootDockLeadMinutes, now)
        ELSE now
      dockStartIsSynthetic ==
        IF ~lane.atDock THEN FALSE
        ELSE IF hadPrev /\ prevAtDock /\ prevDockStartTimeIso # NULL
             THEN prevDockStartIsSynthetic
        ELSE IF hadPrev /\ ~prevAtDock THEN FALSE
        ELSE TRUE
      dockArcFraction ==
        IF ~lane.atDock THEN NoFrac ELSE DockArcFraction(dockStartTime, now)
  IN [lane |-> [lane EXCEPT !.dockStartTime = dockStartTime,
                            !.dockStartIsSynthetic = dockStartIsSynthetic,
                            !.dockArcFraction = dockArcFraction],
      state |-> [atDock |-> lane.atDock,
                 dockStartTime |-> dockStartTime,
                 dockStartIsSynthetic |-> dockStartIsSynthetic]]

-----------------------------------------------------------------------------
(* Last-good lane cache *)

\* A faulty variant: the entry runs out when its age reaches the TTL.
getLastGoodLane_ExpiresAtTtl(entry, nowMs) ==
  IF entry = NoEntry THEN NoEntry
  ELSE IF nowMs - entry.tMs >= LAST_GOOD_TTL_MS THEN NoEntry
  ELSE entry.lane

\* entry is lastGoodLanesByRoute[routeId][laneKey], or NoEntry.
getLastGoodLane(entry, nowMs) ==
  IF entry = NoEntry THEN NoEntry
  ELSE IF nowMs - entry.tMs > LAST_GOOD_TTL_MS THEN NoEntry
  ELSE entry.lane

setLastGoodLane(lane, nowMs) == [lane |-> lane, tMs |-> nowMs]

-----------------------------------------------------------------------------
(* Schedule lane resolver *)

FetchFailed == [ok |-> FALSE]
Fetched(payload) == [ok |-> TRUE, data |-> payload]

RECURSIVE SelectSeq2(_, _, _)
\* rows.filter: the rows of the route that depart terminalIdWest, in order.
SelectSeq2(rows, routeId, terminalIdWest) ==
  IF rows = <<>> THEN <<>>
  ELSE LET r == Head(rows)
           rest == SelectSeq2(Tail(rows), routeId, terminalIdWest)
       IN IF /\ ToNumber(r.routeId) = ToNumber(routeId)
             /\ ToNumber(r.departingTerminalId) = ToNumber(terminalIdWest)
          THEN <<r>> \o rest ELSE rest

\* A faulty variant: the last row of the position is taken.
FindPosition_Last(westRows, position) ==
  IF \E i \in 1..Len(westRows) : ToNumber(westRows[i].vesselPositionNumber) = position
  THEN westRows[CHOOSE i \in 1..Len(westRows) :
         /\ ToNumber(westRows[i].vesselPositionNumber) = position
         /\ \A j \in (i + 1)..Len(westRows) :
              ToNumber(westRows[j].vesselPositionNumber) # position]
  ELSE NoEntry

\* westRows.find(position) || null
FindPosition(westRows, position) ==
  IF \E i \in 1..Len(westRows) : ToNumber(westRows[i].vesselPositionNumber) = position
  THEN westRows[CHOOSE i \in 1..Len(westRows) :
         /\ ToNumber(westRows[i].vesselPositionNumber) = position
         /\ \A j \in 1..(i - 1) : ToNumber(westRows[j].vesselPositionNumber) # position]
  ELSE NoEntry

\* A faulty variant: a slot without a row counts as a schedule error.
ResolveLaneVessels_ErrorOnMissingSlot(route, terminalIdWest, rows) ==
  IF Len(rows) = 0
  THEN [upper |-> NoEntry, lower |-> NoEntry, scheduleError |-> TRUE]
  ELSE
    LET westRows == SelectSeq2(rows, route.routeId, terminalIdWest)
        upperRow == FindPosition(westRows, 1)
        lowerRow == FindPosition(westRows, 2)
    IN IF Len(westRows) = 0
       THEN [upper |-> NoEntry, lower |-> NoEntry, scheduleError |-> FALSE]
       ELSE [upper |-> IF upperRow # NoEntry /\ upperRow.vesselId # NULL
                       THEN [vesselPositionNumber |-> 1, vesselId |-> upperRow.vesselId]
                       ELSE NoEntry,
             lower |-> IF lowerRow # NoEntry /\ lowerRow.vesselId # NULL
                       THEN [vesselPositionNumber |-> 2, vesselId |-> lowerRow.vesselId]
                       ELSE NoEntry,
             scheduleError |-> upperRow = NoEntry \/ lowerRow = NoEntry]

\* deriveLaneVesselsForRoute once the rows are there.
ResolveLaneVessels(route, terminalIdWest, rows) ==
  IF Len(rows) = 0
  THEN [upper |-> NoEntry, lower |-> NoEntry, scheduleError |-> TRUE]
  ELSE
    LET westRows == SelectSeq2(rows, route.routeId, terminalIdWest)
        upperRow == FindPosition(westRows, 1)
        lowerRow == FindPosition(westRows, 2)
    IN IF Len(westRows) = 0
       THEN [upper |-> NoEntry, lower |-> NoEntry, scheduleError |-> FALSE]
       ELSE [upper |-> IF upperRow # NoEntry /\ upperRow.vesselId # NULL
                       THEN [vesselPositionNumber |-> 1, vesselId |-> upperRow.vesselId]
                       ELSE NoEntry,
             lower |-> IF lowerRow # NoEntry /\ lowerRow.vesselId # NULL
                       THEN [vesselPositionNumber |-> 2, vesselId |-> lowerRow.vesselId]
                       ELSE NoEntry,
             scheduleError |-> FALSE]

\* fetched is what `await fetchDailySchedule(...)` gave: a rejection or rows.
\* The fetch sits in a try/catch: a rejection gives scheduleError.
deriveLaneVesselsForRoute(route, terminalIdWest, fetched) ==
  IF ~fetched.ok
  THEN [upper |-> NoEntry, lower |-> NoEntry, scheduleError |-> TRUE]
  ELSE ResolveLaneVessels(route, terminalIdWest, fetched.data)

-----------------------------------------------------------------------------
(* Capacity deriver *)

\* A faulty variant: a positive observation replaces the stored maximum.
getStickyVesselMax_Overwrite(map, vesselId, observedMax) ==
  IF vesselId = NULL THEN [value |-> NULL, map |-> map]
  ELSE IF observedMax # NULL /\ observedMax > 0
       THEN [value |-> observedMax,
             map |-> [v \in DOMAIN map \cup {vesselId} |->
                        IF v = vesselId THEN observedMax ELSE map[v]]]
  ELSE IF vesselId \in DOMAIN map THEN [value |-> map[vesselId], map |-> map]
  ELSE [value |-> NULL, map |-> map]

\* map is vesselMaxCapacityById; the result is the value returned and the map
\* as the call leaves it.
getStickyVesselMax(map, vesselId, observedMax) ==
  IF vesselId = NULL THEN [value |-> NULL, map |-> map]
  ELSE IF vesselId \in DOMAIN map THEN [value |-> map[vesselId], map |-> map]
  ELSE IF observedMax # NULL /\ observedMax > 0
       THEN [value |-> observedMax,
             map |-> [v \in DOMAIN map \cup {vesselId} |->
                        IF v = vesselId THEN observedMax ELSE map[v]]]
  ELSE [value |-> NULL, map |-> map]

\* sideEntry is lastGoodCapacityByRoute[routeId][side], or NoEntry.
getLastGoodCapacity(sideEntry, nowMs) ==
  IF sideEntry = NoEntry THEN NoEntry
  ELSE IF nowMs - sideEntry.tMs > CAPACITY_TTL_MS THEN NoEntry
  ELSE sideEntry.data

setLastGoodCapacity(data, nowMs) == [data |-> data, tMs |-> nowMs]

RECURSIVE ArrivalCandidates_ZeroForAbsent(_, _, _)
\* A faulty variant: an absent DriveUpSpaceCount is read as 0.
ArrivalCandidates_ZeroForAbsent(dep, arrivalList, otherTermIdNum) ==
  IF arrivalList = <<>> THEN <<>>
  ELSE LET arr == Head(arrivalList)
           rest == ArrivalCandidates_ZeroForAbsent(dep, Tail(arrivalList),
                                                   otherTermIdNum)
       IN IF ToNumber(arr.TerminalID) # otherTermIdNum THEN rest
          ELSE << [depMs |-> dep.Departure,
                   vesselId |-> dep.VesselID,
                   rawMax |-> IF dep.MaxSpaceCount # NULL THEN dep.MaxSpaceCount
                              ELSE arr.MaxSpaceCount,
                   driveUp |-> ToNumber(arr.DriveUpSpaceCount)] >> \o rest

RECURSIVE ArrivalCandidates(_, _, _)
ArrivalCandidates(dep, arrivalList, otherTermIdNum) ==
  IF arrivalList = <<>> THEN <<>>
  ELSE LET arr == Head(arrivalList)
           rest == ArrivalCandidates(dep, Tail(arrivalList), otherTermIdNum)
       IN IF ToNumber(arr.TerminalID) # otherTermIdNum THEN rest
          ELSE << [depMs |-> dep.Departure,
                   vesselId |-> dep.VesselID,
                   rawMax |-> IF dep.MaxSpaceCount # NULL THEN dep.MaxSpaceCount
                              ELSE arr.MaxSpaceCount,
                   driveUp |-> arr.DriveUpSpaceCount] >> \o rest

RECURSIVE DepartureCandidates(_, _)
DepartureCandidates(departingSpaces, otherTermIdNum) ==
  IF departingSpaces = <<>> THEN <<>>
  ELSE ArrivalCandidates(Head(departingSpaces),
                         Head(departingSpaces).SpaceForArrivalTerminals,
                         otherTermIdNum)
       \o DepartureCandidates(Tail(departingSpaces), otherTermIdNum)

RECURSIVE TerminalCandidates(_, _, _)
\* The flattened candidates: departures from this terminal to the opposite one.
TerminalCandidates(terminalsPayload, sideTermIdNum, otherTermIdNum) ==
  IF terminalsPayload = <<>> THEN <<>>
  ELSE LET terminalRow == Head(terminalsPayload)
           rest == TerminalCandidates(Tail(terminalsPayload), sideTermIdNum,
                                      otherTermIdNum)
       IN IF ToNumber(terminalRow.TerminalID) # sideTermIdNum THEN rest
          ELSE DepartureCandidates(terminalRow.DepartingSpaces, otherTermIdNum)
               \o rest

RECURSIVE FutureOnly(_, _)
FutureOnly(candidates, nowMs) ==
  IF candidates = <<>> THEN <<>>
  ELSE IF Head(candidates).depMs # NULL /\ Head(candidates).depMs >= nowMs
       THEN <<Head(candidates)>> \o FutureOnly(Tail(candidates), nowMs)
       ELSE FutureOnly(Tail(candidates), nowMs)

\* Insert c after every element that does not depart later (a stable sort).
RECURSIVE InsertByDep(_, _)
InsertByDep(sorted, c) ==
  IF sorted = <<>> THEN <<c>>
  ELSE IF Head(sorted).depMs <= c.depMs
       THEN <<Head(sorted)>> \o InsertByDep(Tail(sorted), c)
       ELSE <<c>> \o sorted

RECURSIVE SortByDep(_)
SortByDep(candidates) ==
  IF candidates = <<>> THEN <<>>
  ELSE InsertByDep(SortByDep(SubSeq(candidates, 1, Len(candidates) - 1)),
                   candidates[Len(candidates)])

hasDriveUp(c) == c.driveUp # NULL

\* The first candidate that has a drive-up count and, when vesselId is given,
\* is of that vessel; NoEntry when there is none.
FirstWithDriveUp(candidates, vesselId) ==
  LET Fits(c) == hasDriveUp(c) /\ (vesselId = NULL \/
                                   (c.vesselId # NULL /\ c.vesselId = vesselId))
  IN IF \E i \in 1..Len(candidates) : Fits(candidates[i])
     THEN candidates[CHOOSE i \in 1..Len(candidates) :
            /\ Fits(candidates[i])
            /\ \A j \in 1..(i - 1) : ~Fits(candidates[j])]
     ELSE NoEntry

\* A faulty variant: a side left without data does not count as a fallback.
deriveCapacityForSide_NoDataUnflagged(o) ==
  The({
    LET fallback ==
          [data |-> IF lastGood # NoEntry THEN [lastGood EXCEPT !.isStale = TRUE]
                    ELSE NoEntry,
           usedFallback |-> lastGood # NoEntry, sticky |-> o.sticky,
           sideEntry |-> o.sideEntry]
    IN
    IF ~o.terminalsPayload.ok \/ ToNumber(o.terminalIdSide) = 0
       \/ ToNumber(o.terminalIdOther) = 0
    THEN fallback
    ELSE
      The({
        LET scheduledVesselId ==
              IF o.scheduledLane # NoEntry /\ o.scheduledLane.vesselId # NULL
              THEN o.scheduledLane.vesselId ELSE NULL
            schedChoice == IF scheduledVesselId # NULL
                           THEN FirstWithDriveUp(futureCandidates, scheduledVesselId)
                           ELSE NoEntry
        IN
        The({
          IF chosen = NoEntry THEN fallback
          ELSE
            The({
              IF chosen.driveUp = NULL
              THEN IF lastGood # NoEntry /\ lastGood.availAuto # NULL
                   THEN LET data == [terminalId |-> o.terminalIdSide,
                                     vesselId |-> chosen.vesselId,
                                     maxAuto |-> st.value,
                                     availAuto |-> lastGood.availAuto,
                                     lastUpdated |-> o.now,
                                     isStale |-> TRUE]
                        IN [data |-> data, usedFallback |-> TRUE, sticky |-> st.map,
                            sideEntry |-> setLastGoodCapacity(data, o.now)]
                   ELSE [data |-> NoEntry, usedFallback |-> TRUE, sticky |-> st.map,
                         sideEntry |-> o.sideEntry]
              ELSE LET data == [terminalId |-> o.terminalIdSide,
                                vesselId |-> chosen.vesselId,
                                maxAuto |-> st.value,
                                availAuto |-> chosen.driveUp,
                                lastUpdated |-> o.now,
                                isStale |-> FALSE]
                   IN [data |-> data,
                       usedFallback |-> schedChoice = NoEntry /\ scheduledVesselId # NULL,
                       sticky |-> st.map,
                       sideEntry |-> setLastGoodCapacity(data, o.now)]
              : st \in {getStickyVesselMax(o.sticky, chosen.vesselId, chosen.rawMax)} })
          : chosen \in {IF schedChoice # NoEntry THEN schedChoice
                        ELSE FirstWithDriveUp(futureCandidates, NULL)} })
        : futureCandidates \in
            {SortByDep(FutureOnly(
               TerminalCandidates(o.terminalsPayload.data,
                                  ToNumber(o.terminalIdSide),
                                  ToNumber(o.terminalIdOther)), o.now))} })
    : lastGood \in {getLastGoodCapacity(o.sideEntry, o.now)} })

\* o = [sideEntry, terminalIdSide, terminalIdOther, scheduledLane,
\*      terminalsPayload (a Fetched/FetchFailed value), now, sticky].
\* The result carries the sticky map and the side's last-good entry as the
\* call leaves them.
deriveCapacityForSide(o) ==
  The({
    LET fallback ==
          [data |-> IF lastGood # NoEntry THEN [lastGood EXCEPT !.isStale = TRUE]
                    ELSE NoEntry,
           usedFallback |-> TRUE, sticky |-> o.sticky, sideEntry |-> o.sideEntry]
    IN
    IF ~o.terminalsPayload.ok \/ ToNumber(o.terminalIdSide) = 0
       \/ ToNumber(o.terminalIdOther) = 0
    THEN fallback
    ELSE
      The({
        LET scheduledVesselId ==
              IF o.scheduledLane # NoEntry /\ o.scheduledLane.vesselId # NULL
              THEN o.scheduledLane.vesselId ELSE NULL
            schedChoice == IF scheduledVesselId # NULL
                           THEN FirstWithDriveUp(futureCandidates, scheduledVesselId)
                           ELSE NoEntry
        IN
        The({
          IF chosen = NoEntry THEN fallback
          ELSE
            The({
              IF chosen.driveUp = NULL
              THEN IF lastGood # NoEntry /\ lastGood.availAuto # NULL
                   THEN LET data == [terminalId |-> o.terminalIdSide,
                                     vesselId |-> chosen.vesselId,
                                     maxAuto |-> st.value,
                                     availAuto |-> lastGood.availAuto,
                                     lastUpdated |-> o.now,
                                     isStale |-> TRUE]
                        IN [data |-> data, usedFallback |-> TRUE, sticky |-> st.map,
                            sideEntry |-> setLastGoodCapacity(data, o.now)]
                   ELSE [data |-> NoEntry, usedFallback |-> TRUE, sticky |-> st.map,
                         sideEntry |-> o.sideEntry]
              ELSE LET data == [terminalId |-> o.terminalIdSide,
                                vesselId |-> chosen.vesselId,
                                maxAuto |-> st.value,
                                availAuto |-> chosen.driveUp,
                                lastUpdated |-> o.now,
                                isStale |-> FALSE]
                   IN [data |-> data,
                       usedFallback |-> schedChoice = NoEntry /\ scheduledVesselId # NULL,
                       sticky |-> st.map,
                       sideEntry |-> setLastGoodCapacity(data, o.now)]
              : st \in {getStickyVesselMax(o.sticky, chosen.vesselId, chosen.rawMax)} })
          : chosen \in {IF schedChoice # NoEntry THEN schedChoice
                        ELSE FirstWithDriveUp(futureCandidates, NULL)} })
        : futureCandidates \in
            {SortByDep(FutureOnly(
               TerminalCandidates(o.terminalsPayload.data,
                                  ToNumber(o.terminalIdSide),
                                  ToNumber(o.terminalIdOther)), o.now))} })
    : lastGood \in {getLastGoodCapacity(o.sideEntry, o.now)} })

-----------------------------------------------------------------------------
(* State assembler *)

UNDEFINED == -9998                 \* reading a property an object lacks
FieldOf(obj, name) == IF name \in DOMAIN obj THEN obj[name] ELSE UNDEFINED

EmptyVesselMax == [v \in {} |-> NULL]

buildSyntheticState(route, terminalIdWest, terminalIdEast, now) ==
  LET departTacoma == now - SyntheticDepartAgo
      arriveTacoma == departTacoma + route.crossingTimeMinutes
      departWen == now - SyntheticDockedAgo
      nextDepartWen == now + SyntheticNextDepart
  IN [kind |-> "snapshot",
      route |-> [routeId |-> route.routeId,
                 terminalIdWest |-> terminalIdWest,
                 terminalIdEast |-> terminalIdEast],
      lanes |->
        [upper |-> [vesselPositionNumber |-> 1,
                    vesselId |-> NULL,
                    atDock |-> FALSE,
                    direction |-> "WEST_TO_EAST",
                    departureTerminalId |-> terminalIdWest,
                    arrivalTerminalId |-> terminalIdEast,
                    scheduledDeparture |-> departTacoma,
                    leftDock |-> departTacoma,
                    eta |-> arriveTacoma,
                    phase |-> "UNDERWAY",
                    dotPosition |-> computeDotPosition(departTacoma, arriveTacoma, now),
                    currentArrivalTime |-> arriveTacoma,
                    dockStartTime |-> NULL,
                    dockStartIsSynthetic |-> FALSE,
                    dockArcFraction |-> NoFrac,
                    lastUpdatedVessels |-> now,
                    isStale |-> FALSE],
         lower |-> [vesselPositionNumber |-> 2,
                    vesselId |-> NULL,
                    atDock |-> TRUE,
                    direction |-> "EAST_TO_WEST",
                    departureTerminalId |-> terminalIdEast,
                    arrivalTerminalId |-> terminalIdWest,
                    scheduledDeparture |-> nextDepartWen,
                    leftDock |-> NULL,
                    eta |-> NULL,
                    phase |-> "AT_DOCK",
                    dotPosition |-> FracZero,
                    currentArrivalTime |-> nextDepartWen,
                    dockStartTime |-> departWen,
                    dockStartIsSynthetic |-> FALSE,
                    dockArcFraction |-> Frac(1, 5),
                    lastUpdatedVessels |-> now,
                    isStale |-> FALSE]],
      meta |-> [lastUpdatedVessels |-> now,
                lastUpdatedCapacity |-> NULL,
                vesselsStale |-> TRUE,
                capacityStale |-> TRUE,
                serverTime |-> now,
                fallback |-> [mode |-> "synthetic",
                              lanes |-> [upper |-> "synthetic", lower |-> "synthetic"]],
                reason |-> "synthetic_no_live_data"]]

\* byId.get(vesselId) || null: a later record of the feed replaces an earlier one.
ById(liveVessels, vesselId) ==
  IF \E i \in 1..Len(liveVessels) : liveVessels[i].vesselId = vesselId
  THEN liveVessels[CHOOSE i \in 1..Len(liveVessels) :
         /\ liveVessels[i].vesselId = vesselId
         /\ \A j \in (i + 1)..Len(liveVessels) : liveVessels[j].vesselId # vesselId]
  ELSE NoEntry

\* The scheduled lane whose departure terminal is this side's terminal.
ScheduledLaneForSide(scheduledUpper, scheduledLower, terminalId) ==
  IF scheduledUpper # NoEntry
     /\ FieldOf(scheduledUpper, "departureTerminalId") = terminalId
  THEN scheduledUpper
  ELSE IF scheduledLower # NoEntry
          /\ FieldOf(scheduledLower, "departureTerminalId") = terminalId
  THEN scheduledLower
  ELSE NoEntry

\* A faulty variant: the reused lane keeps the timestamp of its observation.
ReuseLastGoodLane_NoBump(cached, now) == [cached EXCEPT !.isStale = TRUE]

\* A faulty variant: the reused lane is bumped and not marked stale.
ReuseLastGoodLane_NotMarked(cached, now) ==
  [cached EXCEPT !.lastUpdatedVessels = now]

\* The last-good lane as it is served: marked stale, timestamp bumped.
ReuseLastGoodLane(cached, now) ==
  [cached EXCEPT !.lastUpdatedVessels = now, !.isStale = TRUE]

\* One lane of buildDotState: live, else last-good marked stale, else degraded.
\* When building the live lane throws, the lane is Thrown and the cache is as
\* it was.
\* The result holds the lane, its source label and the cache entry afterwards.
BuildLane(raw, cacheEntry, positionNumber, defaultDirection, ids, route, now) ==
  LET nominal == deriveDirectionAndTerminals(NoEntry, ids.terminalIdWest,
                                             ids.terminalIdEast, defaultDirection)
  IN
  IF raw # NoEntry
  THEN The({ The({
         IF lane = Thrown
         THEN [lane |-> Thrown, source |-> "live", cacheEntry |-> cacheEntry]
         ELSE [lane |-> lane, source |-> "live",
               cacheEntry |-> setLastGoodLane(lane, now)]
         : lane \in {buildLaneFromVessel(raw,
                       [positionNumber |-> positionNumber,
                        direction |-> dirMeta.direction,
                        departureTerminalId |-> dirMeta.departureTerminalId,
                        arrivalTerminalId |-> dirMeta.arrivalTerminalId,
                        route |-> route, now |-> now])} })
         : dirMeta \in {deriveDirectionAndTerminals(raw, ids.terminalIdWest,
                          ids.terminalIdEast, defaultDirection)} })
  ELSE The({
          IF cached # NoEntry
          THEN [lane |-> ReuseLastGoodLane(cached, now),
                source |-> "stale", cacheEntry |-> cacheEntry]
          ELSE [lane |-> buildLaneFromVessel(NoEntry,
                           [positionNumber |-> positionNumber,
                            direction |-> nominal.direction,
                            departureTerminalId |-> nominal.departureTerminalId,
                            arrivalTerminalId |-> nominal.arrivalTerminalId,
                            route |-> route, now |-> now]),
                source |-> "missing", cacheEntry |-> cacheEntry]
          : cached \in {getLastGoodLane(cacheEntry, now)} })

\* The capacity block of buildDotState.  mem = [capacity: side -> entry,
\* sticky]; the result holds the snapshot fields and the two maps afterwards.
BuildCapacity(terminalsPayload, scheduledUpper, scheduledLower, ids, mem, now) ==
  IF ~terminalsPayload.ok
  THEN [capacity |-> NoEntry, lastUpdated |-> NULL, stale |-> TRUE,
        entries |-> mem.capacity, sticky |-> mem.sticky]
  ELSE
    The({ The({
      LET west == westResult.data
          east == eastResult.data
          capacityUsedFallback == westResult.usedFallback \/ eastResult.usedFallback
          entries == [side \in Sides |-> IF side = "west" THEN westResult.sideEntry
                                         ELSE eastResult.sideEntry]
      IN IF west # NoEntry \/ east # NoEntry
         THEN [capacity |->
                 [westMaxAuto |-> IF west # NoEntry THEN west.maxAuto ELSE NULL,
                  westAvailAuto |-> IF west # NoEntry THEN west.availAuto ELSE NULL,
                  westVesselId |-> IF west # NoEntry THEN west.vesselId ELSE NULL,
                  eastMaxAuto |-> IF east # NoEntry THEN east.maxAuto ELSE NULL,
                  eastAvailAuto |-> IF east # NoEntry THEN east.availAuto ELSE NULL,
                  eastVesselId |-> IF east # NoEntry THEN east.vesselId ELSE NULL],
               lastUpdated |->
                 IF west # NoEntry /\ east # NoEntry
                 THEN (IF west.lastUpdated >= east.lastUpdated THEN west.lastUpdated
                       ELSE east.lastUpdated)
                 ELSE IF west # NoEntry THEN west.lastUpdated ELSE east.lastUpdated,
               stale |-> \/ (west # NoEntry /\ west.isStale)
                         \/ (east # NoEntry /\ east.isStale)
                         \/ capacityUsedFallback,
               entries |-> entries, sticky |-> eastResult.sticky]
         ELSE [capacity |-> NoEntry, lastUpdated |-> NULL, stale |-> TRUE,
               entries |-> entries, sticky |-> eastResult.sticky]
      : eastResult \in {deriveCapacityForSide(
          [sideEntry |-> mem.capacity["east"],
           terminalIdSide |-> ids.terminalIdEast,
           terminalIdOther |-> ids.terminalIdWest,
           scheduledLane |-> ScheduledLaneForSide(scheduledUpper, scheduledLower,
                                                  ids.terminalIdEast),
           terminalsPayload |-> terminalsPayload, now |-> now,
           sticky |-> westResult.sticky])} })
      : westResult \in {deriveCapacityForSide(
          [sideEntry |-> mem.capacity["west"],
           terminalIdSide |-> ids.terminalIdWest,
           terminalIdOther |-> ids.terminalIdEast,
           scheduledLane |-> ScheduledLaneForSide(scheduledUpper, scheduledLower,
                                                  ids.terminalIdWest),
           terminalsPayload |-> terminalsPayload, now |-> now,
           sticky |-> mem.sticky])} })

\* A variant that puts the tag of the failed fetch first.
FallbackReason_TagFirst(upperSource, lowerSource, usedFallback) ==
  LET anyNonLive == upperSource # "live" \/ lowerSource # "live"
      anyMissing == upperSource = "missing" \/ lowerSource = "missing"
      laneReason == IF ~anyNonLive THEN "ok"
                    ELSE IF anyMissing THEN "missing_lane" ELSE "stale_lane"
  IN IF ~usedFallback THEN laneReason
     ELSE IF laneReason = "ok" THEN "api_error"
     ELSE IF laneReason = "missing_lane" THEN "api_error_missing_lane"
     ELSE "api_error_stale_lane"

\* meta.reason: the cause of the non-live lanes, tagged when the vessels fetch
\* of the call failed.
FallbackReason(upperSource, lowerSource, usedFallback) ==
  LET anyNonLive == upperSource # "live" \/ lowerSource # "live"
      anyMissing == upperSource = "missing" \/ lowerSource = "missing"
      laneReason == IF ~anyNonLive THEN "ok"
                    ELSE IF anyMissing THEN "missing_lane" ELSE "stale_lane"
  IN IF ~usedFallback THEN laneReason
     ELSE IF laneReason = "ok" THEN "api_error"
     ELSE IF laneReason = "missing_lane" THEN "missing_lane_api_error"
     ELSE "stale_lane_api_error"

\* A faulty variant: the synthetic return drops the last-good lanes.
SyntheticReturn_DropsLanes(route, ids, now, mem) ==
  [value |-> buildSyntheticState(route, ids.terminalIdWest,
                                 ids.terminalIdEast, now),
   mem |-> [mem EXCEPT !.lanes = [k \in LaneKeys |-> NoEntry]]]

\* The return taken when the schedule is unusable: it comes before anything
\* reads or writes the memory.
SyntheticReturn(route, ids, now, mem) ==
  [value |-> buildSyntheticState(route, ids.terminalIdWest,
                                 ids.terminalIdEast, now),
   mem |-> mem]

\* buildDotState from the point where the schedule fetch has settled to its
\* return: no await lies in between, so it runs as one step.
\*   req       the call's locals: routeId, now, terminalsOk, usedFallback
\*   sched     deriveLaneVesselsForRoute's result
\*   liveVessels, terminalsPayload   what the two earlier awaits left
\*   mem       [dock, lanes, capacity, sticky]: the memory of the route
\* The result holds the value returned (or that the call rejected, when
\* building a lane threw: nothing catches it) and the memory afterwards: what
\* was written before the throw stays written.
AssembleDotState(req, sched, liveVessels, terminalsPayload, mem) ==
  LET route == getRouteById(req.routeId)
      ids == getTerminalIdsForRoute(route)
      now == req.now
  IN
  IF sched.scheduleError \/ (sched.upper = NoEntry /\ sched.lower = NoEntry)
  THEN SyntheticReturn(route, ids, now, mem)
  ELSE
    The({
      LET anyNonLive == up.source # "live" \/ lo.source # "live"
          reason == FallbackReason(up.source, lo.source, req.usedFallback)
      IN
      IF up.lane = Thrown
      THEN [value |-> [kind |-> "rejected"],
            mem |-> [dock |-> mem.dock, lanes |-> mem.lanes,
                     capacity |-> cap.entries, sticky |-> cap.sticky]]
      ELSE IF lo.lane = Thrown
      THEN [value |-> [kind |-> "rejected"],
            mem |-> [dock |-> mem.dock,
                     lanes |-> [mem.lanes EXCEPT !["upper"] = up.cacheEntry],
                     capacity |-> cap.entries, sticky |-> cap.sticky]]
      ELSE
        The({
          [value |->
             [kind |-> "snapshot",
              route |-> [routeId |-> route.routeId,
                         terminalIdWest |-> ids.terminalIdWest,
                         terminalIdEast |-> ids.terminalIdEast],
              lanes |-> [upper |-> upDock.lane, lower |-> loDock.lane],
              capacity |-> cap.capacity,
              meta |-> [lastUpdatedVessels |-> now,
                        lastUpdatedCapacity |-> cap.lastUpdated,
                        vesselsStale |-> anyNonLive \/ req.usedFallback,
                        capacityStale |-> cap.stale,
                        serverTime |-> now,
                        fallback |-> [mode |-> IF anyNonLive THEN "partial" ELSE "live",
                                      lanes |-> [upper |-> up.source,
                                                 lower |-> lo.source]],
                        reason |-> reason]],
           mem |-> [dock |-> [k \in LaneKeys |-> IF k = "upper" THEN upDock.state
                                                 ELSE loDock.state],
                    lanes |-> [k \in LaneKeys |-> IF k = "upper" THEN up.cacheEntry
                                                  ELSE lo.cacheEntry],
                    capacity |-> cap.entries,
                    sticky |-> cap.sticky]]
          : upDock \in {updateDockMetaForLane(mem.dock["upper"],
                          snapStaleLaneToDockIfArrived(up.lane, now), now)},
            loDock \in {updateDockMetaForLane(mem.dock["lower"],
                          snapStaleLaneToDockIfArrived(lo.lane, now), now)} })
      : cap \in {BuildCapacity(terminalsPayload, sched.upper, sched.lower, ids,
                               [capacity |-> mem.capacity, sticky |-> mem.sticky],
                               now)},
        up \in {BuildLane(IF sched.upper # NoEntry /\ sched.upper.vesselId # NULL
                          THEN ById(liveVessels, sched.upper.vesselId) ELSE NoEntry,
                          mem.lanes["upper"], 1, "WEST_TO_EAST", ids, route, now)},
        lo \in {BuildLane(IF sched.lower # NoEntry /\ sched.lower.vesselId # NULL
                          THEN ById(liveVessels, sched.lower.vesselId) ELSE NoEntry,
                          mem.lanes["lower"], 2, "EAST_TO_WEST", ids, route, now)} })

-----------------------------------------------------------------------------
(* Upstream payloads the environment may deliver *)

WestId == 3
EastId == 7

Vessel(id, dep, arr, atDock, leftDock, eta, sched) ==
  [vesselId |-> id, departingId |-> dep, arrivingId |-> arr, atDock |-> atDock,
   leftDockIso |-> leftDock, etaIso |-> eta, scheduledDepartureIso |-> sched]

\* Normalised records of the vessel scheduled in slot 1 ...
UpperVesselRecords ==
  { Vessel(1, WestId, EastId, TRUE, NULL, NULL, 30),   \* docked, sails at 30
    Vessel(1, WestId, EastId, FALSE, 0, 10, 0),        \* under way, due at 10
    Vessel(1, EastId, WestId, FALSE, 5, NULL, NULL),   \* returning, no Eta given
    Vessel(1, EastId, WestId, TRUE, -40, 10, -40),     \* docked long, Eta kept
    Vessel(1, WestId, EastId, FALSE, MaxTimeValue - ClockStep, NULL, NULL) }
                                  \* LeftDock at the far end of the Date range
\* ... and of the vessel scheduled in slot 2.
LowerVesselRecords ==
  { Vessel(2, EastId, WestId, TRUE, NULL, NULL, NULL),
    Vessel(2, EastId, WestId, FALSE, 5, 15, 5),
    Vessel(2, EastId, WestId, TRUE, NULL, NULL, MaxTimeValue) }

OneOrNone(records) == {<<>>} \cup {<<v>> : v \in records}

\* vessellocations feeds: at most one record of each of the two vessels.
VesselFeeds == {a \o b : a \in OneOrNone(UpperVesselRecords),
                         b \in OneOrNone(LowerVesselRecords)}

Row(routeId, departingTerminalId, vesselPositionNumber, vesselId) ==
  [routeId |-> routeId, departingTerminalId |-> departingTerminalId,
   vesselPositionNumber |-> vesselPositionNumber, vesselId |-> vesselId]

\* Flattened schedule rows of route 5, as fetchDailySchedule returns them.
SchedulePayloads ==
  { << Row(5, WestId, 1, 1), Row(5, EastId, 1, 1),
       Row(5, WestId, 2, 2), Row(5, EastId, 2, 2) >>,  \* both slots
    << Row(5, WestId, 1, 1), Row(5, EastId, 1, 1) >>,  \* slot 1 only
    << Row(5, WestId, 1, NULL), Row(5, WestId, 2, 2) >>, \* slot 1 has no vessel
    << Row(5, EastId, 1, 1) >>,                        \* nothing departs west
    << >> }                                            \* no rows

ScheduleOutcomes == {FetchFailed} \cup {Fetched(p) : p \in SchedulePayloads}

\* The schedules of the schedule-centred specification: those above, one
\* taken after the two vessels changed slots, and one that begins with a row
\* of another route and lists slot 1 twice.
ChangingSchedules ==
  ScheduleOutcomes \cup
  { Fetched(<< Row(5, WestId, 1, 2), Row(5, WestId, 2, 1) >>),
    Fetched(<< Row(3, WestId, 1, 2), Row(5, WestId, 1, 1),
               Row(5, WestId, 2, 2), Row(5, WestId, 1, 2) >>) }

\* terminalsailingspace payloads of the lane-centred specification.
NoSpacePayloads == { << >> }

\* One DepartingSpaces entry with one arrival terminal.
Dep(departure, vesselId, maxSpace, arrivalTerminalId, driveUp, arrivalMaxSpace) ==
  [Departure |-> departure, VesselID |-> vesselId, MaxSpaceCount |-> maxSpace,
   SpaceForArrivalTerminals |->
     << [TerminalID |-> arrivalTerminalId, DriveUpSpaceCount |-> driveUp,
         MaxSpaceCount |-> arrivalMaxSpace] >>]

\* Vessel 1 sailing west to east at 10 with a maximum of 120 and 40 free: the
\* only entry below with that drive-up count.
WestSailingAt120 == Dep(10, 1, 120, EastId, 40, NULL)

\* What the western terminal may list ...
WestSpaces ==
  { << >>,
    << Dep(10, 1, NULL, EastId, 50, NULL) >>,          \* no maximum given
    << Dep(10, 1, 100, EastId, 50, NULL) >>,
    << WestSailingAt120 >>,
    << Dep(20, 2, NULL, EastId, NULL, 100),            \* later sailing first,
       Dep(10, 1, NULL, EastId, 50, 120) >>,           \* maximum per arrival
    << Dep(10, 1, 0, EastId, 0, NULL) >>,              \* zero maximum, full
    << Dep(10, 1, 100, EastId, NULL, NULL),            \* vessel 1 gives no count,
       Dep(20, 2, NULL, EastId, 30, NULL) >>,          \* the later vessel 2 does
    << Dep(10, 2, NULL, EastId, 20, NULL),             \* vessel 2 sails before
       Dep(20, 1, NULL, EastId, 60, NULL) >> }         \* vessel 1, both count
\* ... and the eastern one.
EastSpaces ==
  { << >>,
    << Dep(10, 1, 100, WestId, 50, NULL) >>,
    << Dep(15, 2, NULL, WestId, 30, NULL) >> }

SpacePayloads ==
  { << [TerminalID |-> WestId, DepartingSpaces |-> w],
       [TerminalID |-> EastId, DepartingSpaces |-> e] >> :
    w \in WestSpaces, e \in EastSpaces }

\* The capacity-centred specification: both slots scheduled, no vessel seen.
CapacitySchedules ==
  { Fetched(<< Row(5, WestId, 1, 1), Row(5, EastId, 1, 1),
               Row(5, WestId, 2, 2), Row(5, EastId, 2, 2) >>) }
NoVesselFeeds == { << >> }

\* The overlap specification: slot 1 scheduled, its vessel docked or under way.
OverlapSchedules == { Fetched(<< Row(5, WestId, 1, 1), Row(5, EastId, 1, 1) >>) }
OverlapFeeds ==
  { << >>,
    << Vessel(1, WestId, EastId, TRUE, NULL, NULL, 30) >>,
    << Vessel(1, WestId, EastId, FALSE, 0, 10, 0) >> }

\* The feeds of the schedule-centred specification: those above, and two that
\* hold both vessels, one of them docked without an arrival terminal and the
\* other sailing against its slot's usual direction or along it.
ScheduleFeeds ==
  OverlapFeeds \cup
  { << Vessel(1, WestId, NULL, TRUE, NULL, NULL, 30),
       Vessel(2, WestId, EastId, FALSE, 0, 10, 0) >>,
    << Vessel(1, EastId, WestId, FALSE, 0, 10, 0),
       Vessel(2, EastId, NULL, TRUE, NULL, NULL, NULL) >> }

\* The feeds of the specification with fairness: no vessel, vessel 1 docked,
\* and vessel 1 with a LeftDock at the far end of the Date range and no Eta.
LiveFeeds ==
  { << >>,
    << Vessel(1, WestId, EastId, TRUE, NULL, NULL, 30) >>,
    << Vessel(1, WestId, EastId, FALSE, MaxTimeValue - ClockStep, NULL, NULL) >> }

-----------------------------------------------------------------------------
(* The calls *)

ReqIds == {"r1", "r2"}
Idle == [pc |-> "idle"]

\* Route ids the callers ask for: two of the catalog, one outside it.
RequestedRouteIds == {5, 1, 99}

NoMemory == [dock |-> [k \in LaneKeys |-> NoEntry],
             lanes |-> [k \in LaneKeys |-> NoEntry],
             capacity |-> [sd \in Sides |-> NoEntry]]

Init ==
  /\ clock = 0
  /\ dockStateByRoute = [id \in CatalogIds |-> NoMemory.dock]
  /\ lastGoodLanesByRoute = [id \in CatalogIds |-> NoMemory.lanes]
  /\ lastGoodCapacityByRoute = [id \in CatalogIds |-> NoMemory.capacity]
  /\ vesselMaxCapacityById = EmptyVesselMax
  /\ reqs = [r \in ReqIds |-> Idle]
  /\ ret = [call |-> NoEntry, value |-> [kind |-> "none"]]

\* Time passes between two readings of the clock.
Tick ==
  /\ clock + ClockStep <= MaxClock
  /\ clock' = clock + ClockStep
  /\ UNCHANGED <<dockStateByRoute, lastGoodLanesByRoute, lastGoodCapacityByRoute,
                 vesselMaxCapacityById, reqs, ret>>

\* `await fetchTerminalSpaces()` inside try/catch: a rejection leaves null.
AwaitTerminalSpaces(req, ok) ==
  [req EXCEPT !.pc = "getNormalizedVessels", !.terminalsOk = ok]

\* `await getNormalizedVessels()` inside try/catch: a rejection leaves [] and
\* sets usedFallback.
AwaitNormalizedVessels(req, ok) ==
  [req EXCEPT !.pc = "fetchDailySchedule", !.vesselsOk = ok,
              !.usedFallback = ~ok]

\* buildDotState(routeId) up to its first await: route lookup, `now`, the
\* terminal ids, and the call of fetchTerminalSpaces.  An unknown route
\* returns null at once.  `fetches` counts the upstream fetches the call has
\* issued so far.
BuildDotState(r, routeId) ==
  /\ reqs[r].pc = "idle"
  /\ IF getRouteById(routeId) = NoEntry
     THEN /\ ret' = [call |-> [id |-> r, routeId |-> routeId, fetches |-> 0],
                     value |-> [kind |-> "null"]]
          /\ UNCHANGED reqs
     ELSE /\ reqs' = [reqs EXCEPT ![r] =
                        [pc |-> "fetchTerminalSpaces", routeId |-> routeId,
                         now |-> clock, terminalsOk |-> FALSE, vesselsOk |-> FALSE,
                         usedFallback |-> FALSE, fetches |-> 1]]
          /\ ret' = [call |-> NoEntry, value |-> [kind |-> "none"]]
  /\ UNCHANGED <<clock, dockStateByRoute, lastGoodLanesByRoute,
                 lastGoodCapacityByRoute, vesselMaxCapacityById>>

\* The terminal-space fetch settles; getNormalizedVessels is called.
TerminalSpacesSettled(r, ok) ==
  /\ reqs[r].pc = "fetchTerminalSpaces"
  /\ reqs' = [reqs EXCEPT ![r] =
                [AwaitTerminalSpaces(reqs[r], ok) EXCEPT !.fetches = @ + 1]]
  /\ UNCHANGED <<clock, dockStateByRoute, lastGoodLanesByRoute,
                 lastGoodCapacityByRoute, vesselMaxCapacityById, ret>>

\* The vessels fetch settles; deriveLaneVesselsForRoute calls fetchDailySchedule.
VesselsSettled(r, ok) ==
  /\ reqs[r].pc = "getNormalizedVessels"
  /\ reqs' = [reqs EXCEPT ![r] =
                [AwaitNormalizedVessels(reqs[r], ok) EXCEPT !.fetches = @ + 1]]
  /\ UNCHANGED <<clock, dockStateByRoute, lastGoodLanesByRoute,
                 lastGoodCapacityByRoute, vesselMaxCapacityById, ret>>

\* A variant that works on a dock memory read before the other call wrote it.
RouteMemory_DockNotRead(id) ==
  [dock |-> NoMemory.dock,
   lanes |-> lastGoodLanesByRoute[id],
   capacity |-> lastGoodCapacityByRoute[id],
   sticky |-> vesselMaxCapacityById]

\* The four maps as the synchronous part of buildDotState reads them: every
\* access lies after the last await, so all of them see one and the same
\* state of the module.
RouteMemory(id) ==
  [dock |-> dockStateByRoute[id],
   lanes |-> lastGoodLanesByRoute[id],
   capacity |-> lastGoodCapacityByRoute[id],
   sticky |-> vesselMaxCapacityById]

\* The schedule fetch settles and buildDotState runs to its return.  `call`
\* notes, beside the value returned, what the call was given: its route id,
\* its `now`, the fetches it issued, the sticky map it found and, where the
\* specification asks for it (`noting`), what the three fetches left it with
\* (`given`) and the memory of the route as the call found it at this point
\* (`before`).  The
\* contents of the two payloads fetched earlier are bound here, where the code
\* first reads them (and only on the paths that read them): they are local to
\* the call and nothing else sees them.
ScheduleSettled(r, scheduleOutcomes, vesselFeeds, spacePayloads, noting) ==
  /\ reqs[r].pc = "fetchDailySchedule"
  /\ \E fetched \in scheduleOutcomes :
     \E sched \in {deriveLaneVesselsForRoute(
                     getRouteById(reqs[r].routeId),
                     getTerminalIdsForRoute(getRouteById(reqs[r].routeId)).terminalIdWest,
                     fetched)} :
       LET req == reqs[r]
           id == req.routeId
           unread == \/ sched.scheduleError
                     \/ (sched.upper = NoEntry /\ sched.lower = NoEntry)
           mem == RouteMemory(id)
       IN \E feed \in (IF req.vesselsOk /\ ~unread THEN vesselFeeds ELSE {<< >>}),
             spaces \in (IF req.terminalsOk /\ ~unread THEN spacePayloads
                         ELSE {<< >>}) :
          \E terminalsPayload \in {IF req.terminalsOk THEN Fetched(spaces)
                                   ELSE FetchFailed} :
          \E out \in {AssembleDotState(req, sched, feed, terminalsPayload, mem)} :
               /\ ret' = [call |-> [id |-> r, routeId |-> id, now |-> req.now,
                                    fetches |-> req.fetches,
                                    stickyBefore |-> vesselMaxCapacityById,
                                    given |-> IF noting
                                              THEN [usedFallback |-> req.usedFallback,
                                                    schedule |-> fetched,
                                                    sched |-> sched,
                                                    liveVessels |-> feed,
                                                    terminalsPayload |-> terminalsPayload]
                                              ELSE NoEntry,
                                    before |-> IF noting THEN mem ELSE NoEntry],
                          value |-> out.value]
               /\ dockStateByRoute' =
                    [dockStateByRoute EXCEPT ![id] = out.mem.dock]
               /\ lastGoodLanesByRoute' =
                    [lastGoodLanesByRoute EXCEPT ![id] = out.mem.lanes]
               /\ lastGoodCapacityByRoute' =
                    [lastGoodCapacityByRoute EXCEPT ![id] = out.mem.capacity]
               /\ vesselMaxCapacityById' = out.mem.sticky
  /\ reqs' = [reqs EXCEPT ![r] = Idle]
  /\ UNCHANGED clock

-----------------------------------------------------------------------------
(* Upstream client: one fetch and its HTTP attempts (wsdotClient.js) *)

\* err.code of the failures getWithRetry tries again after.
RetryableCodes ==
  {"ECONNABORTED", "ECONNRESET", "ETIMEDOUT", "ENETUNREACH", "EAI_AGAIN"}

\* What one axios.get can end with: a response (whose data is an array, an
\* object that is no array, or nothing), an error without a response (with
\* or without one of the codes above), or an error carrying the status of the
\* response.
HttpResponse(data) == [ok |-> TRUE, code |-> "", status |-> 200, data |-> data]
HttpError(code, status) ==
  [ok |-> FALSE, code |-> code, status |-> status, data |-> "none"]
AttemptOutcomes ==
  { HttpResponse(d) : d \in {"array", "object", "none"} }
    \cup { HttpError(c, NULL) : c \in RetryableCodes \cup {"ERR_NETWORK", ""} }
    \cup { HttpError("ERR_BAD_RESPONSE", s) : s \in {500, 599} }
    \cup { HttpError("ERR_BAD_REQUEST", s) : s \in {404, 499} }

\* A variant that also tries again after a 4xx response.
isRetryableError_AnyErrorStatus(err) ==
  \/ err.code \in RetryableCodes
  \/ (err.status # NULL /\ err.status >= 400 /\ err.status < 600)

isRetryableError(err) ==
  \/ err.code \in RetryableCodes
  \/ (err.status # NULL /\ err.status >= 500 /\ err.status < 600)

\* The three fetches of the client, and the attempts each may make: two in
\* the client with getWithRetry, one in the client that calls axios.get
\* directly (which has no fetchTerminalSpaces).
Fetches == {"fetchDailySchedule", "getNormalizedVessels", "fetchTerminalSpaces"}
maxAttempts == 2
AttemptsOf(fetch) ==
  IF fetch = "fetchTerminalSpaces" THEN {maxAttempts} ELSE {1, maxAttempts}

\* The test each fetch makes of the response's data before it returns it.
PayloadAccepted(fetch, data) ==
  IF fetch = "fetchDailySchedule" THEN data \in {"array", "object"}
  ELSE data = "array"

\* A fetch has ended: `call` notes the attempts it made.
FetchReturn(r, req, log, kind) ==
  [call |-> [id |-> r, fetch |-> req.fetch, attempts |-> log],
   value |-> [kind |-> kind]]

\* A fetch function is called; without an API key it throws before any
\* request is made.
CallFetch(r, fetch, limit, hasKey) ==
  /\ reqs[r].pc = "idle"
  /\ IF hasKey
     THEN /\ reqs' = [reqs EXCEPT ![r] =
                        [pc |-> "axios.get", fetch |-> fetch, limit |-> limit,
                         attempt |-> 1, log |-> << >>]]
          /\ ret' = [call |-> NoEntry, value |-> [kind |-> "none"]]
     ELSE /\ ret' = FetchReturn(r, [fetch |-> fetch], << >>, "fetchFailed")
          /\ UNCHANGED reqs
  /\ UNCHANGED <<clock, dockStateByRoute, lastGoodLanesByRoute,
                 lastGoodCapacityByRoute, vesselMaxCapacityById>>

\* One axios.get settles: a response leaves the loop and the fetch tests its
\* data; an error is rethrown when it is not retryable or the attempts are
\* used up, and otherwise the loop waits for the backoff.
AttemptSettled(r, outcome) ==
  /\ reqs[r].pc = "axios.get"
  /\ LET req == reqs[r]
         log == Append(req.log, outcome)
     IN IF outcome.ok
        THEN /\ ret' = FetchReturn(r, req, log,
                         IF PayloadAccepted(req.fetch, outcome.data)
                         THEN "fetched" ELSE "fetchFailed")
             /\ reqs' = [reqs EXCEPT ![r] = Idle]
        ELSE IF ~isRetryableError(outcome) \/ req.attempt = req.limit
        THEN /\ ret' = FetchReturn(r, req, log, "fetchFailed")
             /\ reqs' = [reqs EXCEPT ![r] = Idle]
        ELSE /\ reqs' = [reqs EXCEPT ![r] =
                           [req EXCEPT !.pc = "backoff", !.log = log]]
             /\ UNCHANGED ret
  /\ UNCHANGED <<clock, dockStateByRoute, lastGoodLanesByRoute,
                 lastGoodCapacityByRoute, vesselMaxCapacityById>>

\* The backoff timer fires and the loop makes its next attempt.
BackoffElapsed(r) ==
  /\ reqs[r].pc = "backoff"
  /\ reqs' = [reqs EXCEPT ![r] =
                [reqs[r] EXCEPT !.pc = "axios.get", !.attempt = @ + 1]]
  /\ UNCHANGED <<clock, dockStateByRoute, lastGoodLanesByRoute,
                 lastGoodCapacityByRoute, vesselMaxCapacityById, ret>>

-----------------------------------------------------------------------------
(* Specifications *)

\* One call at a time, with the full range of vessel feeds and schedules.
Next ==
  \/ Tick
  \/ \E routeId \in RequestedRouteIds : BuildDotState("r1", routeId)
  \/ \E ok \in BOOLEAN : TerminalSpacesSettled("r1", ok)
  \/ \E ok \in BOOLEAN : VesselsSettled("r1", ok)
  \/ ScheduleSettled("r1", ScheduleOutcomes, VesselFeeds, NoSpacePayloads, FALSE)

Spec == Init /\ [][Next]_vars

\* One call at a time on route 5, with the range of terminal-space payloads.
NextCapacity ==
  \/ Tick
  \/ \E routeId \in {5} : BuildDotState("r1", routeId)
  \/ \E ok \in BOOLEAN : TerminalSpacesSettled("r1", ok)
  \/ \E ok \in {TRUE} : VesselsSettled("r1", ok)
  \/ ScheduleSettled("r1", CapacitySchedules, NoVesselFeeds, SpacePayloads, TRUE)

SpecCapacity == Init /\ [][NextCapacity]_vars

\* Two calls on route 5 whose awaits interleave freely.
NextOverlap ==
  \/ Tick
  \/ \E r \in ReqIds, routeId \in {5} : BuildDotState(r, routeId)
  \/ \E r \in ReqIds, ok \in {FALSE} : TerminalSpacesSettled(r, ok)
  \/ \E r \in ReqIds, ok \in BOOLEAN : VesselsSettled(r, ok)
  \/ \E r \in ReqIds :
       ScheduleSettled(r, OverlapSchedules, OverlapFeeds, NoSpacePayloads, TRUE)

SpecOverlap == Init /\ [][NextOverlap]_vars

\* One call at a time on route 5, with every outcome of the schedule fetch and
\* the vessel of slot 1 absent, docked or under way.
NextSchedules ==
  \/ Tick
  \/ \E routeId \in {5} : BuildDotState("r1", routeId)
  \/ \E ok \in {FALSE} : TerminalSpacesSettled("r1", ok)
  \/ \E ok \in BOOLEAN : VesselsSettled("r1", ok)
  \/ ScheduleSettled("r1", ChangingSchedules, ScheduleFeeds, NoSpacePayloads, TRUE)

SpecSchedules == Init /\ [][NextSchedules]_vars

\* The fetches of the upstream client, one at a time.
NextRetry ==
  \/ \E fetch \in Fetches : \E limit \in AttemptsOf(fetch), hasKey \in BOOLEAN :
       CallFetch("r1", fetch, limit, hasKey)
  \/ \E outcome \in AttemptOutcomes : AttemptSettled("r1", outcome)
  \/ BackoffElapsed("r1")

SpecRetry == Init /\ [][NextRetry]_vars

\* One call at a time, where every fetch that was started settles: each
\* makes at most maxAttempts requests, every request ends in a response, an
\* error or its timeout, and the backoff timer fires.
NextLive ==
  \/ Tick
  \/ \E routeId \in RequestedRouteIds : BuildDotState("r1", routeId)
  \/ \E ok \in BOOLEAN : TerminalSpacesSettled("r1", ok)
  \/ \E ok \in BOOLEAN : VesselsSettled("r1", ok)
  \/ ScheduleSettled("r1", ScheduleOutcomes, LiveFeeds, NoSpacePayloads, FALSE)

SpecLive ==
  /\ Init /\ [][NextLive]_vars
  /\ WF_vars(\E ok \in BOOLEAN : TerminalSpacesSettled("r1", ok))
  /\ WF_vars(\E ok \in BOOLEAN : VesselsSettled("r1", ok))
  /\ WF_vars(ScheduleSettled("r1", ScheduleOutcomes, LiveFeeds, NoSpacePayloads,
                             FALSE))

-----------------------------------------------------------------------------
(* Properties of the returned snapshots *)

Returned == ret.value.kind = "snapshot"
Synthetic == Returned /\ ret.value.meta.fallback.mode = "synthetic"
Lanes == {ret.value.lanes[k] : k \in LaneKeys}

\* C1 as claimed: for a catalog route buildDotState never rejects, whatever
\* the three upstream fetches do: it resolves with a snapshot object.
C1_NeverThrows ==
  (ret.call # NoEntry /\ ret.call.routeId \in CatalogIds) => Returned

Phases == {"AT_DOCK", "UNDERWAY", "UNKNOWN"}

\* C3: in every returned snapshot the upper lane is slot 1 and the lower lane
\* slot 2, every lane's phase is AT_DOCK, UNDERWAY or UNKNOWN and its
\* dotPosition lies within [0, 1].
C3_LaneRanges ==
  Returned =>
    /\ ret.value.lanes.upper.vesselPositionNumber = 1
    /\ ret.value.lanes.lower.vesselPositionNumber = 2
    /\ \A lane \in Lanes :
         /\ lane.phase \in Phases
         /\ lane.dotPosition.den > 0
         /\ FracLeq(FracZero, lane.dotPosition)
         /\ FracLeq(lane.dotPosition, FracOne)

\* A live lane under way past its eta: the ratio exceeds 1 and is capped.
C3_Witness ==
  /\ Returned
  /\ \E lane \in Lanes :
       /\ ~lane.isStale /\ ~lane.atDock
       /\ lane.eta # NULL /\ lane.leftDock # NULL
       /\ lane.leftDock < lane.eta /\ lane.eta < ret.call.now
       /\ lane.dotPosition = FracOne

\* C4 as claimed: a lane at dock has dotPosition 0.
C4_AtDockAtZero ==
  Returned => \A lane \in Lanes : lane.atDock => FracEq(lane.dotPosition, FracZero)

Arrived(lane) == lane.isStale /\ lane.eta # NULL /\ lane.eta <= ret.call.now

\* C4 amended: a lane at dock has dotPosition 0, except a stale lane whose eta
\* is not after the call's now, which has dotPosition 1.
C4_AtDockAtZeroUnlessSnapped ==
  Returned =>
    \A lane \in Lanes :
      lane.atDock => FracEq(lane.dotPosition,
                            IF Arrived(lane) THEN FracOne ELSE FracZero)

\* A live lane at dock between its leftDock and its eta: the ratio is positive
\* and the dot is put at 0 all the same.
C4_Witness ==
  /\ Returned
  /\ \E lane \in Lanes :
       /\ lane.atDock /\ ~lane.isStale
       /\ lane.leftDock # NULL /\ lane.eta # NULL
       /\ lane.leftDock < ret.call.now /\ ret.call.now < lane.eta
       /\ lane.dotPosition = FracZero

\* C5: in every returned snapshot a lane's dockArcFraction is non-null exactly
\* when its dockStartTime is non-null and the lane is at dock.
C5_ArcIffDocked ==
  Returned =>
    \A lane \in Lanes :
      (lane.dockArcFraction # NoFrac) <=> (lane.dockStartTime # NULL /\ lane.atDock)

\* A lane that docked in this very call: no time has elapsed, the arc is 0.
C5_Witness ==
  /\ Returned /\ ~Synthetic
  /\ \E lane \in Lanes :
       /\ lane.atDock /\ lane.dockStartTime = ret.call.now
       /\ lane.dockArcFraction = FracZero

HourFraction(elapsed) ==
  IF elapsed >= DockArcFullMinutes THEN FracOne ELSE Frac(elapsed, DockArcFullMinutes)

\* C6 as claimed: a non-null dockArcFraction equals
\* min(1, (now - dockStartTime) / one hour), in the synthetic snapshot too.
C6_ArcIsElapsedHourFraction ==
  Returned =>
    \A lane \in Lanes :
      (lane.dockArcFraction # NoFrac /\ lane.dockStartTime # NULL) =>
        FracEq(lane.dockArcFraction, HourFraction(ret.call.now - lane.dockStartTime))

\* C7 as claimed: a lane with a dockArcFraction has a dockStartTime, and it is
\* not later than the call's own now.
C7_DockStartNotInFuture ==
  Returned =>
    \A lane \in Lanes :
      lane.dockArcFraction # NoFrac =>
        (lane.dockStartTime # NULL /\ lane.dockStartTime <= ret.call.now)

\* C8: a stale lane's lastUpdatedVessels is the now of the call that returned it.
C8_StaleBumped ==
  Returned =>
    \A lane \in Lanes : lane.isStale => lane.lastUpdatedVessels = ret.call.now

\* A stale lane is returned by a call later than the one that observed it.
C8_Witness ==
  /\ Returned
  /\ \E k \in LaneKeys :
       /\ ret.value.lanes[k].isStale
       /\ lastGoodLanesByRoute[ret.call.routeId][k] # NoEntry
       /\ lastGoodLanesByRoute[ret.call.routeId][k].tMs < ret.call.now

Capacity == ret.value.capacity
StickyBefore == ret.call.stickyBefore

\* C9 as claimed: once vessel v has a sticky maximum M, every later snapshot
\* that reports v on a side reports maxAuto = M there, never another number
\* and never null, whether the side is fresh or served from last-good.
C9_StickyMaxReported ==
  (Returned /\ ~Synthetic /\ Capacity # NoEntry) =>
    /\ (Capacity.westVesselId \in DOMAIN StickyBefore
          => Capacity.westMaxAuto = StickyBefore[Capacity.westVesselId])
    /\ (Capacity.eastVesselId \in DOMAIN StickyBefore
          => Capacity.eastMaxAuto = StickyBefore[Capacity.eastVesselId])

\* C10: an entry of the sticky-max map, once set, is never changed and never
\* removed, whatever maxima are observed afterwards; an entry that is added
\* holds a positive number.
C10_StickyWriteOnce ==
  [][/\ \A v \in DOMAIN vesselMaxCapacityById :
          /\ v \in DOMAIN vesselMaxCapacityById'
          /\ vesselMaxCapacityById'[v] = vesselMaxCapacityById[v]
     /\ \A v \in DOMAIN vesselMaxCapacityById' \ DOMAIN vesselMaxCapacityById :
          vesselMaxCapacityById'[v] > 0]_vars

\* Vessel 1 had the maximum 100 stored; a call then chose its sailing that
\* carries 120 (fresh on both sides, 40 free) and the entry is still 100.
C10_Witness ==
  /\ Returned /\ ~Synthetic /\ Capacity # NoEntry
  /\ ~ret.value.meta.capacityStale
  /\ Capacity.westVesselId = WestSailingAt120.VesselID
  /\ Capacity.westAvailAuto =
       WestSailingAt120.SpaceForArrivalTerminals[1].DriveUpSpaceCount
  /\ 1 \in DOMAIN StickyBefore /\ StickyBefore[1] = 100
  /\ WestSailingAt120.MaxSpaceCount # StickyBefore[1]
  /\ vesselMaxCapacityById[1] = 100

Given == ret.call.given
Before == ret.call.before
Noted == Returned /\ ~Synthetic /\ Given # NoEntry

SideTerminal(side) ==
  IF side = "west" THEN ret.value.route.terminalIdWest
  ELSE ret.value.route.terminalIdEast
OtherSide(side) == IF side = "west" THEN "east" ELSE "west"

\* The sailings the payload of the call lists from the side's terminal to the
\* opposite one that depart at or after the call's now, each with the
\* DriveUpSpaceCount the payload gives for it (NULL when it gives none).
FutureDriveUps(side) ==
  IF ~Given.terminalsPayload.ok THEN {}
  ELSE LET rows == Given.terminalsPayload.data
       IN { rows[i].DepartingSpaces[j].SpaceForArrivalTerminals[k].DriveUpSpaceCount :
              <<i, j, k>> \in
                { t \in (DOMAIN rows) \X (1..2) \X (1..1) :
                    /\ rows[t[1]].TerminalID = SideTerminal(side)
                    /\ t[2] \in DOMAIN rows[t[1]].DepartingSpaces
                    /\ rows[t[1]].DepartingSpaces[t[2]].Departure >= ret.call.now
                    /\ t[3] \in DOMAIN rows[t[1]].DepartingSpaces[t[2]].SpaceForArrivalTerminals
                    /\ rows[t[1]].DepartingSpaces[t[2]].SpaceForArrivalTerminals[t[3]].TerminalID
                         = SideTerminal(OtherSide(side)) } }

\* The last-good capacity of the side as the call found it, when within the TTL.
LastGoodBefore(side) ==
  IF Before.capacity[side] = NoEntry THEN NoEntry
  ELSE IF ret.call.now - Before.capacity[side].tMs > CAPACITY_TTL_MS THEN NoEntry
  ELSE Before.capacity[side].data

AvailAuto(side) ==
  IF Capacity = NoEntry THEN NULL
  ELSE IF side = "west" THEN Capacity.westAvailAuto ELSE Capacity.eastAvailAuto

\* C11: when the payload of the call lists no future sailing of a side with a
\* DriveUpSpaceCount and there is no last-good capacity of the side within the
\* TTL, the side's availAuto is null; and a side's availAuto is 0 only if the
\* payload lists a future sailing with the count 0 or the last-good capacity
\* within the TTL holds 0.
C11_NoFabricatedZero ==
  Noted =>
    \A side \in Sides :
      /\ (FutureDriveUps(side) \subseteq {NULL} /\ LastGoodBefore(side) = NoEntry)
           => AvailAuto(side) = NULL
      /\ AvailAuto(side) = 0
           => \/ 0 \in FutureDriveUps(side)
              \/ (LastGoodBefore(side) # NoEntry /\ LastGoodBefore(side).availAuto = 0)

\* The western terminal lists a future sailing without a DriveUpSpaceCount and
\* none with one, nothing is cached for the side, and its availAuto is null
\* while the eastern side has a number.
C11_Witness ==
  /\ Noted /\ Given.terminalsPayload.ok
  /\ FutureDriveUps("west") = {NULL}
  /\ LastGoodBefore("west") = NoEntry
  /\ Capacity # NoEntry
  /\ Capacity.westAvailAuto = NULL
  /\ Capacity.eastAvailAuto # NULL

\* The memory of the route the last call was made for, as it is now.
MemoryNow ==
  [dock |-> dockStateByRoute[ret.call.routeId],
   lanes |-> lastGoodLanesByRoute[ret.call.routeId],
   capacity |-> lastGoodCapacityByRoute[ret.call.routeId],
   sticky |-> vesselMaxCapacityById]

\* What buildDotState returns when it is called again right after the last
\* call, reads the same clock value and gets the same three responses.
RepeatedCall ==
  AssembleDotState([routeId |-> ret.call.routeId, now |-> ret.call.now,
                    usedFallback |-> Given.usedFallback],
                   Given.sched, Given.liveVessels, Given.terminalsPayload,
                   MemoryNow)

\* C12 as claimed: a call that follows a call for the same route with the
\* same upstream responses and the same clock value returns the snapshot the
\* first one returned, whatever the memory held before the first call.
C12_RepeatIsIdentical ==
  (Returned /\ Given # NoEntry /\ \A r \in ReqIds : reqs[r] = Idle) =>
    RepeatedCall.value = ret.value

Labels == ret.value.meta.fallback.lanes
CacheEntry(k) == lastGoodLanesByRoute[ret.call.routeId][k]

C14_DockingRecordsNow ==
  Noted =>
    \A k \in LaneKeys :
      (/\ Before.dock[k] # NoEntry
       /\ ~Before.dock[k].atDock
       /\ ret.value.lanes[k].atDock) =>
        /\ ret.value.lanes[k].dockStartTime = ret.call.now
        /\ ~ret.value.lanes[k].dockStartIsSynthetic
        /\ ret.value.lanes[k].dockArcFraction = FracZero

\* A vessel seen under way is then seen at dock by a later call; its scheduled
\* departure lies well after that call's now and does not become the start.
C14_Witness ==
  /\ Noted
  /\ \E k \in LaneKeys :
       /\ Before.dock[k] # NoEntry /\ ~Before.dock[k].atDock
       /\ ret.value.lanes[k].atDock /\ ~ret.value.lanes[k].isStale
       /\ ret.call.now > 0
       /\ ret.value.lanes[k].scheduledDeparture # NULL
       /\ ret.value.lanes[k].scheduledDeparture - BootDockLeadMinutes # ret.call.now
       /\ ret.value.lanes[k].dockStartTime = ret.call.now

OtherLane(k) == IF k = "upper" THEN "lower" ELSE "upper"

\* The fields of a lane that neither the stale marking, the stale snap nor the
\* dock tracker sets.
CarriedFields ==
  {"vesselPositionNumber", "vesselId", "direction", "departureTerminalId",
   "arrivalTerminalId", "scheduledDeparture", "leftDock", "eta",
   "currentArrivalTime"}

\* C15: a slot that is not served live (its scheduled vessel is not in the
\* feed) and whose last live observation is at most the TTL old is served from
\* the cache: the lane carries the cached lane's fields, isStale = true and
\* lastUpdatedVessels = now, its label is 'stale', and when the other lane is
\* live (so the vessels fetch succeeded) the mode is 'partial' and the reason
\* 'stale_lane'.
C15_StaleLaneServed ==
  (Returned /\ ~Synthetic) =>
    \A k \in LaneKeys :
      (/\ Labels[k] # "live"
       /\ CacheEntry(k) # NoEntry
       /\ ret.call.now - CacheEntry(k).tMs <= LAST_GOOD_TTL_MS) =>
        /\ \A f \in CarriedFields : ret.value.lanes[k][f] = CacheEntry(k).lane[f]
        /\ ret.value.lanes[k].isStale
        /\ ret.value.lanes[k].lastUpdatedVessels = ret.call.now
        /\ Labels[k] = "stale"
        /\ Labels[OtherLane(k)] = "live" =>
             /\ ret.value.meta.fallback.mode = "partial"
             /\ ret.value.meta.reason = "stale_lane"

\* Slot 1 is served from an observation made by an earlier call while slot 2
\* is live.
C15_Witness ==
  /\ Returned /\ ~Synthetic
  /\ Labels["upper"] = "stale" /\ Labels["lower"] = "live"
  /\ CacheEntry("upper").tMs < ret.call.now
  /\ ret.value.lanes["upper"].vesselId = CacheEntry("upper").lane.vesselId
  /\ ret.value.meta.reason = "stale_lane"

\* C16: a stale lane whose eta is not after the call's now is at dock, in
\* phase AT_DOCK, with dotPosition 1; a stale lane whose eta is after the
\* call's now has the atDock, phase and dotPosition of the cached lane.
C16_StaleSnap ==
  Returned =>
    \A k \in LaneKeys :
      (ret.value.lanes[k].isStale /\ ret.value.lanes[k].eta # NULL) =>
        IF ret.value.lanes[k].eta <= ret.call.now
        THEN /\ ret.value.lanes[k].atDock
             /\ ret.value.lanes[k].phase = "AT_DOCK"
             /\ ret.value.lanes[k].dotPosition = FracOne
        ELSE /\ CacheEntry(k) # NoEntry
             /\ ret.value.lanes[k].atDock = CacheEntry(k).lane.atDock
             /\ ret.value.lanes[k].phase = CacheEntry(k).lane.phase
             /\ ret.value.lanes[k].dotPosition = CacheEntry(k).lane.dotPosition

\* One snapshot shows both cases: a stale lane observed under way whose eta
\* has passed is at dock at 1, and a stale lane whose eta is still ahead is
\* under way as it was cached.
C16_Witness ==
  /\ Returned
  /\ \E k \in LaneKeys :
       /\ ret.value.lanes[k].isStale
       /\ ret.value.lanes[k].eta # NULL /\ ret.value.lanes[k].eta <= ret.call.now
       /\ ~CacheEntry(k).lane.atDock
       /\ ret.value.lanes[k].atDock /\ ret.value.lanes[k].dotPosition = FracOne
  /\ \E k \in LaneKeys :
       /\ ret.value.lanes[k].isStale
       /\ ret.value.lanes[k].eta # NULL /\ ret.value.lanes[k].eta > ret.call.now
       /\ ~ret.value.lanes[k].atDock /\ ret.value.lanes[k].phase = "UNDERWAY"

\* The future sailings of a side as the payload of the call lists them:
\* departure, vessel and DriveUpSpaceCount.
FutureTuples(side) ==
  IF ~Given.terminalsPayload.ok THEN {}
  ELSE LET rows == Given.terminalsPayload.data
       IN { [depMs |-> rows[t[1]].DepartingSpaces[t[2]].Departure,
             vesselId |-> rows[t[1]].DepartingSpaces[t[2]].VesselID,
             driveUp |-> rows[t[1]].DepartingSpaces[t[2]].SpaceForArrivalTerminals[1]
                           .DriveUpSpaceCount] :
              t \in { u \in (DOMAIN rows) \X (1..2) :
                        /\ rows[u[1]].TerminalID = SideTerminal(side)
                        /\ u[2] \in DOMAIN rows[u[1]].DepartingSpaces
                        /\ rows[u[1]].DepartingSpaces[u[2]].Departure >= ret.call.now
                        /\ rows[u[1]].DepartingSpaces[u[2]].SpaceForArrivalTerminals[1]
                             .TerminalID = SideTerminal(OtherSide(side)) } }

\* The vessel the schedule assigns to a side: the vessel of the scheduled slot
\* whose lane departs from the side's terminal, the upper slot first.
AssignedVessel(side) ==
  LET slots == {k \in LaneKeys :
                  /\ Given.sched[k] # NoEntry
                  /\ ret.value.lanes[k].departureTerminalId = SideTerminal(side)}
  IN IF slots = {} THEN NULL
     ELSE Given.sched[CHOOSE k \in slots : k = "upper" \/ "upper" \notin slots].vesselId

\* The side's capacity comes from another vessel's next sailing: the assigned
\* vessel has no future sailing with a count, and t is the earliest future
\* sailing that has one.
TakenFromOther(side, t) ==
  /\ AssignedVessel(side) # NULL
  /\ t \in FutureTuples(side) /\ t.driveUp # NULL
  /\ \A u \in FutureTuples(side) :
       u.driveUp # NULL => (u.vesselId # AssignedVessel(side) /\ t.depMs <= u.depMs)

SideVesselId(side) ==
  IF side = "west" THEN Capacity.westVesselId ELSE Capacity.eastVesselId

\* C17 as claimed: when the vessel the schedule assigns to a side has no
\* future sailing with a drive-up count and the side's capacity is taken from
\* another vessel's next sailing, the snapshot reports that vessel and its
\* count for the side and has meta.capacityStale = true.
C17_OtherVesselMarksStale ==
  Noted =>
    \A side \in Sides : \A t \in FutureTuples(side) :
      TakenFromOther(side, t) =>
        /\ Capacity # NoEntry
        /\ SideVesselId(side) = t.vesselId
        /\ AvailAuto(side) = t.driveUp
        /\ ret.value.meta.capacityStale

NeitherResolved == Given.sched.upper = NoEntry /\ Given.sched.lower = NoEntry

\* C18 as claimed: the snapshot is the synthetic one exactly when the
\* schedule resolver reports scheduleError and resolved neither identity; with
\* scheduleError false the snapshot is not synthetic.
C18_SyntheticIffScheduleError ==
  (Returned /\ Given # NoEntry) =>
    /\ Synthetic <=> (Given.sched.scheduleError /\ NeitherResolved)
    /\ ~Given.sched.scheduleError => ~Synthetic

\* C18 amended: the snapshot is the synthetic one exactly when the schedule
\* resolver resolved neither the upper nor the lower identity, with or without
\* scheduleError; scheduleError never comes with a resolved identity.
C18_SyntheticIffNeitherResolved ==
  (Returned /\ Given # NoEntry) =>
    /\ Synthetic <=> NeitherResolved
    /\ Given.sched.scheduleError => NeitherResolved

\* The schedule was fetched and has rows, none of them departing the west
\* terminal: no scheduleError, no identity, and the snapshot is synthetic.
C18_Witness ==
  /\ Returned /\ Given # NoEntry
  /\ ~Given.sched.scheduleError /\ NeitherResolved
  /\ Synthetic

\* C19 as claimed: in every returned snapshot, the synthetic one included,
\* each lane's source label is 'live', 'stale' or 'missing'.
C19_SourceLabels ==
  Returned => \A k \in LaneKeys : Labels[k] \in {"live", "stale", "missing"}

\* C20 as claimed: every returned snapshot, the synthetic one included, has
\* the fields route, lanes (with upper and lower), capacity and meta, and its
\* capacity is null or an object with the figures of the two sides.
C20_SnapshotFields ==
  Returned =>
    /\ {"route", "lanes", "capacity", "meta"} \subseteq DOMAIN ret.value
    /\ LaneKeys \subseteq DOMAIN ret.value.lanes
    /\ \/ ret.value.capacity = NoEntry
       \/ {"westAvailAuto", "westMaxAuto", "eastAvailAuto", "eastMaxAuto"}
            \subseteq DOMAIN ret.value.capacity

\* C21 as claimed: the terminal resolver gives every catalog route two
\* terminal ids that are non-null and distinct; a snapshot echoes the ids the
\* resolver gave for its route.
C21_TerminalsResolved ==
  Returned =>
    /\ ret.value.route.terminalIdWest # NULL
    /\ ret.value.route.terminalIdEast # NULL
    /\ ret.value.route.terminalIdWest # ret.value.route.terminalIdEast


\* The memory of every route, as it is now.
AllMemory ==
  <<dockStateByRoute, lastGoodLanesByRoute, lastGoodCapacityByRoute,
    vesselMaxCapacityById>>

\* Request r leaves buildDotState in this step.
Settles(r) == reqs[r].pc = "fetchDailySchedule" /\ reqs'[r] = Idle

\* C22: with two overlapping requests on one route, the accesses one request
\* makes to the dock memory, the last-good lane cache, the sticky-max map and
\* the last-good capacity map are one step: the memory changes only in the
\* step in which one request settles, that request saw the memory exactly as
\* the step found it (every update of the other request, or none), and the
\* step leaves the memory that request's single update produces from it, so
\* the final contents are those of the requests' updates applied one after
\* the other.
C22_MemoryStepIsAtomic ==
  [][ (AllMemory' # AllMemory \/ (\E r \in ReqIds : Settles(r)))
        => \E r \in ReqIds :
             /\ Settles(r)
             /\ \A o \in ReqIds \ {r} : reqs'[o] = reqs[o]
             /\ ret'.call.id = r
             /\ ret'.call.before =
                  [dock |-> dockStateByRoute[ret'.call.routeId],
                   lanes |-> lastGoodLanesByRoute[ret'.call.routeId],
                   capacity |-> lastGoodCapacityByRoute[ret'.call.routeId],
                   sticky |-> vesselMaxCapacityById]
             /\ LET id == ret'.call.routeId
                    after == AssembleDotState(
                               [routeId |-> id, now |-> ret'.call.now,
                                usedFallback |-> ret'.call.given.usedFallback],
                               ret'.call.given.sched, ret'.call.given.liveVessels,
                               ret'.call.given.terminalsPayload,
                               ret'.call.before).mem
                IN /\ dockStateByRoute' =
                        [dockStateByRoute EXCEPT ![id] = after.dock]
                   /\ lastGoodLanesByRoute' =
                        [lastGoodLanesByRoute EXCEPT ![id] = after.lanes]
                   /\ lastGoodCapacityByRoute' =
                        [lastGoodCapacityByRoute EXCEPT ![id] = after.capacity]
                   /\ vesselMaxCapacityById' = after.sticky ]_vars

\* A request has settled and updated a memory the other request had already
\* written to, while the other request is in flight again.
C22_Witness ==
  /\ Noted
  /\ \E o \in ReqIds \ {ret.call.id} : reqs[o].pc # "idle"
  /\ Before.dock # NoMemory.dock
  /\ MemoryNow # Before


\* C23 as claimed: within one buildDotState request the terminal-space, the
\* vessels and the schedule fetch are all started before any of them has
\* completed (a request in flight has issued all three), and the request
\* proceeds only after all three have settled (a call that returned a
\* snapshot issued three).
C23_FetchesStartedTogether ==
  /\ \A r \in ReqIds : reqs[r].pc # "idle" => reqs[r].fetches = 3
  /\ Returned => ret.call.fetches = 3


\* A fetch has ended; the attempts it made.
FetchEnded == ret.value.kind \in {"fetched", "fetchFailed"}
Attempts == ret.call.attempts

\* The failures the client may try again after: connection abort, reset or
\* timeout, network unreachable, DNS retry, or a 5xx response.
RetryableFailure(o) ==
  /\ ~o.ok
  /\ \/ o.code \in {"ECONNABORTED", "ECONNRESET", "ETIMEDOUT", "ENETUNREACH",
                    "EAI_AGAIN"}
     \/ o.status \in 500..599

\* C24: an upstream fetch makes at most two HTTP attempts; it makes a second
\* only after the first failed with a retryable error; a first attempt that
\* succeeds or fails with another error (a 4xx, a malformed payload) ends
\* the fetch after one attempt; and the fetch ends as its last attempt did:
\* it returns data iff that attempt got a response with an acceptable payload.
C24_AtMostTwoAttempts ==
  /\ \A r \in ReqIds :
       reqs[r].pc \in {"axios.get", "backoff"} =>
         /\ reqs[r].attempt <= 2
         /\ Len(reqs[r].log) = reqs[r].attempt - 1
            \/ (reqs[r].pc = "backoff" /\ Len(reqs[r].log) = reqs[r].attempt)
         /\ \A i \in 1..Len(reqs[r].log) : RetryableFailure(reqs[r].log[i])
  /\ FetchEnded =>
       /\ Len(Attempts) <= 2
       /\ Len(Attempts) = 2 => RetryableFailure(Attempts[1])
       /\ (Len(Attempts) >= 1 /\ ~RetryableFailure(Attempts[1]))
            => Len(Attempts) = 1
       /\ Len(Attempts) >= 1 =>
            (ret.value.kind = "fetched"
               <=> /\ Attempts[Len(Attempts)].ok
                   /\ PayloadAccepted(ret.call.fetch,
                                      Attempts[Len(Attempts)].data))

\* A fetch whose first attempt timed out returned the data of its second.
C24_Witness ==
  /\ FetchEnded
  /\ Len(Attempts) = 2
  /\ Attempts[1].code = "ETIMEDOUT"
  /\ ret.value.kind = "fetched"


\* The earliest future sailing of the side's assigned vessel that has a count.
ScheduledTuple(side, s) ==
  /\ s \in FutureTuples(side)
  /\ s.vesselId = AssignedVessel(side) /\ s.driveUp # NULL
  /\ \A u \in FutureTuples(side) :
       (u.vesselId = AssignedVessel(side) /\ u.driveUp # NULL) => s.depMs <= u.depMs

\* C25 as claimed: when the payload lists, for a side, a future sailing of the
\* vessel the schedule assigns to the side with a finite driveUp and an earlier
\* future sailing of another vessel with a finite driveUp, the snapshot
\* reports the scheduled vessel's sailing (its vesselId and driveUp) for the
\* side.
C25_ScheduledVesselPreferred ==
  Noted =>
    \A side \in Sides : \A s \in FutureTuples(side) :
      ( /\ ScheduledTuple(side, s)
        /\ \E t \in FutureTuples(side) :
             /\ t.vesselId # AssignedVessel(side)
             /\ t.driveUp # NULL
             /\ t.depMs < s.depMs )
        => /\ Capacity # NoEntry
           /\ SideVesselId(side) = s.vesselId
           /\ AvailAuto(side) = s.driveUp


\* The sailings of the side in the payload of the call that depart at or
\* after its now and have a finite driveUp; none when the fetch failed.
FiniteDriveUps(side) == FutureDriveUps(side) \ {NULL}

\* The side's capacity values in the snapshot.
SideValues(side) ==
  IF Capacity = NoEntry THEN NoEntry
  ELSE IF side = "west"
       THEN [availAuto |-> Capacity.westAvailAuto, maxAuto |-> Capacity.westMaxAuto,
             vesselId |-> Capacity.westVesselId]
       ELSE [availAuto |-> Capacity.eastAvailAuto, maxAuto |-> Capacity.eastMaxAuto,
             vesselId |-> Capacity.eastVesselId]

\* C26 as claimed: for each side, whenever the request yields no future
\* sailing with a finite driveUp (also when the terminal-space fetch failed)
\* and a last-good capacity of the route and side was cached at most ten
\* minutes ago, the snapshot reports the last-good values for the side and
\* marks capacity stale.
C26_LastGoodCapacityServed ==
  Noted =>
    \A side \in Sides :
      (FiniteDriveUps(side) = {} /\ LastGoodBefore(side) # NoEntry)
        => /\ SideValues(side) # NoEntry
           /\ SideValues(side).availAuto = LastGoodBefore(side).availAuto
           /\ SideValues(side).vesselId = LastGoodBefore(side).vesselId
           /\ ret.value.meta.capacityStale


\* C27 as claimed: in every non-synthetic snapshot meta.fallback.mode is
\* 'live' exactly when both lanes' source is 'live' and neither the vessels
\* nor the terminal-space fetch of the request failed (after a failed
\* schedule fetch the snapshot is synthetic); otherwise it is 'partial'.
C27_LiveIffNoFailure ==
  [][ \A r \in ReqIds :
        (Settles(r) /\ ret'.value.kind = "snapshot"
           /\ ret'.value.meta.fallback.mode # "synthetic")
          => /\ ret'.value.meta.fallback.mode \in {"live", "partial"}
             /\ ret'.value.meta.fallback.mode = "live"
                  <=> /\ ret'.value.meta.fallback.lanes.upper = "live"
                      /\ ret'.value.meta.fallback.lanes.lower = "live"
                      /\ reqs[r].vesselsOk
                      /\ reqs[r].terminalsOk ]_vars


\* C28 as claimed: in every non-synthetic snapshot meta.reason is one of
\* 'ok', 'missing_lane', 'stale_lane', 'api_error' or 'stale_lane_api_error'.
C28_ReasonOneOfFive ==
  (Returned /\ ~Synthetic) =>
    ret.value.meta.reason \in
      {"ok", "missing_lane", "stale_lane", "api_error", "stale_lane_api_error"}

\* C28, amended: in every non-synthetic snapshot meta.reason is one of 'ok',
\* 'missing_lane', 'stale_lane', 'api_error', or 'missing_lane' or
\* 'stale_lane' concatenated with 'api_error'.
C28_ReasonOneOfSix ==
  (Returned /\ ~Synthetic) =>
    ret.value.meta.reason \in
      {"ok", "missing_lane", "stale_lane", "api_error",
       "missing_lane_api_error", "stale_lane_api_error"}

\* The vessels fetch failed and nothing is cached for a scheduled slot.
C28_Witness ==
  /\ Returned /\ ~Synthetic
  /\ ret.value.meta.reason = "missing_lane_api_error"


\* C29: when a lane is at dock and the dock memory has no entry for the
\* route and slot, its dockStartTime is the earlier of now and
\* scheduledDeparture - 25 minutes, or now when the lane has no
\* scheduledDeparture, and dockStartIsSynthetic is true.
C29_BootDockStart ==
  Noted =>
    \A k \in LaneKeys :
      (ret.value.lanes[k].atDock /\ Before.dock[k] = NoEntry)
        => /\ ret.value.lanes[k].dockStartIsSynthetic
           /\ ret.value.lanes[k].dockStartTime =
                IF ret.value.lanes[k].scheduledDeparture = NULL THEN ret.call.now
                ELSE IF ret.value.lanes[k].scheduledDeparture - 25 < ret.call.now
                     THEN ret.value.lanes[k].scheduledDeparture - 25
                     ELSE ret.call.now

\* A first call finds a lane docked whose sailing is more than 25 minutes
\* ahead, and another finds one whose boot value lies in the past.
C29_Witness ==
  /\ Noted
  /\ \E k \in LaneKeys :
       /\ ret.value.lanes[k].atDock /\ Before.dock[k] = NoEntry
       /\ ret.value.lanes[k].scheduledDeparture # NULL
       /\ ret.value.lanes[k].scheduledDeparture - 25 < ret.call.now
       /\ ret.value.lanes[k].dockStartTime = ret.value.lanes[k].scheduledDeparture - 25


\* The dock memory entry of slot k of the route the last call was made for.
DockEntryNow(k) == dockStateByRoute[ret.call.routeId][k]

\* C30: over consecutive non-synthetic requests for a route in which a slot's
\* lane is at dock every time, the lane's dockStartTime and
\* dockStartIsSynthetic stay those of the first of them: a request that finds
\* the slot's entry at dock and its lane at dock reports the entry's values,
\* every non-synthetic request leaves in the entry what its snapshot reports,
\* and nothing else changes the dock memory.  When the lane is not at dock
\* the snapshot's dock fields are null/false and the entry's dockStartTime is
\* cleared.
C30_DockStartKept ==
  /\ [](Noted =>
         \A k \in LaneKeys :
           /\ (ret.value.lanes[k].atDock /\ Before.dock[k] # NoEntry
                 /\ Before.dock[k].atDock)
                => /\ ret.value.lanes[k].dockStartTime = Before.dock[k].dockStartTime
                   /\ ret.value.lanes[k].dockStartIsSynthetic
                        = Before.dock[k].dockStartIsSynthetic
           /\ ~ret.value.lanes[k].atDock
                => /\ ret.value.lanes[k].dockStartTime = NULL
                   /\ ~ret.value.lanes[k].dockStartIsSynthetic
                   /\ ret.value.lanes[k].dockArcFraction = NoFrac
                   /\ DockEntryNow(k).dockStartTime = NULL
           /\ DockEntryNow(k) =
                [atDock |-> ret.value.lanes[k].atDock,
                 dockStartTime |-> ret.value.lanes[k].dockStartTime,
                 dockStartIsSynthetic |-> ret.value.lanes[k].dockStartIsSynthetic])
  /\ [][ dockStateByRoute' # dockStateByRoute
           => /\ ret'.value.kind = "snapshot"
              /\ ret'.value.meta.fallback.mode # "synthetic"
              /\ \A id \in DOMAIN dockStateByRoute :
                   id # ret'.call.routeId
                     => dockStateByRoute'[id] = dockStateByRoute[id] ]_vars

\* A lane that docked during an earlier request is docked again and still
\* reports that request's time, which is not synthetic.
C30_Witness ==
  /\ Noted
  /\ \E k \in LaneKeys :
       /\ ret.value.lanes[k].atDock
       /\ Before.dock[k] # NoEntry /\ Before.dock[k].atDock
       /\ ~ret.value.lanes[k].dockStartIsSynthetic
       /\ ret.value.lanes[k].dockStartTime < ret.call.now


\* C31 as claimed: in a snapshot where a lane is stale and its eta has
\* already passed, so that the stale-snap rule put the lane cached under way
\* at the dock, the lane's dockStartTime is null.
C31_SnappedLaneHasNoDockStart ==
  (Returned /\ ~Synthetic) =>
    \A k \in LaneKeys :
      ( /\ ret.value.meta.fallback.lanes[k] = "stale"
        /\ ret.value.lanes[k].eta # NULL
        /\ ret.value.lanes[k].eta <= ret.call.now
        /\ CacheEntry(k) # NoEntry /\ ~CacheEntry(k).lane.atDock )
        => ret.value.lanes[k].dockStartTime = NULL


\* The schedule rows the call fetched, and the positions in them of the rows
\* that depart the route's west-side terminal: all of them, or only those
\* that carry the id of the route asked for.
ScheduleRows == Given.schedule.data
WestDepartures ==
  {i \in DOMAIN ScheduleRows :
     ScheduleRows[i].departingTerminalId = ret.value.route.terminalIdWest}
WestDeparturesOfRoute ==
  {i \in WestDepartures : ScheduleRows[i].routeId = ret.call.routeId}

\* The slot the first row of `among`, in payload order, with the position
\* gives: the row's vessel, and null when there is no such row or the row
\* names no vessel.
FirstRowSlot(among, position) ==
  LET hits == {i \in among : ScheduleRows[i].vesselPositionNumber = position}
  IN IF hits = {} THEN NoEntry
     ELSE LET first == CHOOSE i \in hits : \A j \in hits : i <= j
          IN IF ScheduleRows[first].vesselId = NULL THEN NoEntry
             ELSE [vesselPositionNumber |-> position,
                   vesselId |-> ScheduleRows[first].vesselId]

ScheduleRead == Returned /\ Given # NoEntry /\ Given.schedule.ok

\* C32 as claimed: the resolver picks as upper the first schedule row, in
\* payload order, among all rows departing the west-side terminal, whose
\* vesselPositionNumber is 1, and as lower the first such row whose
\* vesselPositionNumber is 2; a slot with no such row is null.
C32_FirstWestRow ==
  ScheduleRead =>
    /\ Given.sched.upper = FirstRowSlot(WestDepartures, 1)
    /\ Given.sched.lower = FirstRowSlot(WestDepartures, 2)

\* C32, amended: the rows considered are those of the requested route that
\* depart the west-side terminal; a slot with no such row, or whose first
\* such row has no vesselId, is null.  The slots are a function of the
\* schedule rows alone, whatever the vessel feed of the call held.
C32_FirstWestRowOfRoute ==
  ScheduleRead =>
    /\ Given.sched.upper = FirstRowSlot(WestDeparturesOfRoute, 1)
    /\ Given.sched.lower = FirstRowSlot(WestDeparturesOfRoute, 2)

\* The payload begins with a west departure of another route in position 1
\* and lists two rows of the route in that position: slot 1 is the vessel of
\* the first row of the route, while the feed held a vessel.
C32_Witness ==
  /\ ScheduleRead
  /\ Len(ScheduleRows) > 1
  /\ ScheduleRows[1].routeId # ret.call.routeId
  /\ Cardinality({i \in WestDeparturesOfRoute :
                    ScheduleRows[i].vesselPositionNumber = 1}) > 1
  /\ Given.sched.upper = [vesselPositionNumber |-> 1, vesselId |-> 1]
  /\ Given.liveVessels # << >>


\* The record of the vessel feed of the call for the vessel the schedule puts
\* in slot k (the feeds hold at most one record per vessel).
LiveVesselOf(k) ==
  CHOOSE v \in {Given.liveVessels[i] : i \in DOMAIN Given.liveVessels} :
    v.vesselId = Given.sched[k].vesselId

NominalDirection(k) == IF k = "upper" THEN "WEST_TO_EAST" ELSE "EAST_TO_WEST"

\* C33: for a live lane, direction is WEST_TO_EAST when the live vessel's
\* (departing, arriving) terminal ids are the route's (west, east),
\* EAST_TO_WEST when they are (east, west), and otherwise the slot's nominal
\* direction (upper west to east, lower east to west); the lane's departure
\* and arrival terminal ids are the route's pair in the order of that
\* direction.
C33_LiveDirection ==
  Noted =>
    \A k \in LaneKeys :
      ret.value.meta.fallback.lanes[k] = "live" =>
        LET west == ret.value.route.terminalIdWest
            east == ret.value.route.terminalIdEast
            v == LiveVesselOf(k)
            lane == ret.value.lanes[k]
        IN /\ lane.direction =
                IF v.departingId = west /\ v.arrivingId = east THEN "WEST_TO_EAST"
                ELSE IF v.departingId = east /\ v.arrivingId = west
                     THEN "EAST_TO_WEST"
                ELSE NominalDirection(k)
           /\ <<lane.departureTerminalId, lane.arrivalTerminalId>> =
                IF lane.direction = "WEST_TO_EAST" THEN <<west, east>>
                ELSE <<east, west>>

\* One snapshot has the upper lane live sailing east to west, against its
\* nominal direction, and the lower lane live on its nominal direction
\* because its vessel reports no arrival terminal.
C33_Witness ==
  /\ Noted
  /\ ret.value.meta.fallback.lanes = [upper |-> "live", lower |-> "live"]
  /\ ret.value.lanes.upper.direction = "EAST_TO_WEST"
  /\ ret.value.lanes.upper.departureTerminalId = ret.value.route.terminalIdEast
  /\ LiveVesselOf("lower").arrivingId = NULL
  /\ ret.value.lanes.lower.direction = "EAST_TO_WEST"


C35_LaneCarriesScheduledVessel ==
  Noted =>
    \A k \in LaneKeys :
      ( /\ ret.value.meta.fallback.lanes[k] \in {"live", "stale"}
        /\ Given.sched[k] # NoEntry )
        => ret.value.lanes[k].vesselId = Given.sched[k].vesselId


\* The value a call returned in this step: the not-found signal or the
\* synthetic snapshot.
ReturnsNothingLive ==
  /\ ret' # ret
  /\ \/ ret'.value.kind = "null"
     \/ /\ ret'.value.kind = "snapshot"
        /\ ret'.value.meta.fallback.mode = "synthetic"

\* C36: a buildDotState call that returns the not-found signal or the
\* synthetic snapshot leaves the dock memory, the last-good lane cache, the
\* last-good capacity map and the sticky-max map unchanged: the step in which
\* it returns changes none of them, and neither do the steps in which a call
\* starts or one of its first two fetches settles.
C36_NoWriteWithoutLiveData ==
  [][ (ReturnsNothingLive \/ ~(\E r \in ReqIds : Settles(r)))
        => AllMemory' = AllMemory ]_vars

\* A call returned the synthetic snapshot while the last-good lane cache of
\* its route held a lane.
C36_Witness ==
  /\ Returned /\ Synthetic
  /\ \E k \in LaneKeys : lastGoodLanesByRoute[ret.call.routeId][k] # NoEntry


\* C37 as claimed: under overlapping requests for one route, the observation
\* time stored in the last-good lane cache for a route and slot never
\* decreases: an entry written by a request with a later `now` is never
\* overwritten by one observed at an earlier `now`.
C37_CacheTimeNeverDecreases ==
  [][ \A id \in DOMAIN lastGoodLanesByRoute : \A k \in LaneKeys :
        lastGoodLanesByRoute[id][k] # NoEntry
          => /\ lastGoodLanesByRoute'[id][k] # NoEntry
             /\ lastGoodLanesByRoute'[id][k].tMs >= lastGoodLanesByRoute[id][k].tMs
    ]_vars


\* C38: in a non-synthetic snapshot meta.capacityStale is false only if both
\* the west and the east side produced a capacity derived from the
\* terminal-space payload of the request: the fetch succeeded and each side
\* reports the count of a future sailing the payload lists for it.  A side
\* without data, a last-good reuse on either side, or a failed fetch makes it
\* true.
C38_FreshCapacityOnly ==
  Noted =>
    ( ~ret.value.meta.capacityStale
        => /\ Given.terminalsPayload.ok
           /\ Capacity # NoEntry
           /\ \A side \in Sides :
                /\ FiniteDriveUps(side) # {}
                /\ AvailAuto(side) \in FiniteDriveUps(side) )

\* Both sides report a count of the payload, the west side after an earlier
\* call had cached a last-good capacity for it, and capacityStale is false.
C38_Witness ==
  /\ Noted
  /\ ~ret.value.meta.capacityStale
  /\ Before.capacity["west"] # NoEntry
  /\ \A side \in Sides : AvailAuto(side) \in FiniteDriveUps(side)


\* C39 as claimed: every buildDotState request eventually returns a snapshot
\* or the not-found signal, given that every HTTP attempt eventually
\* succeeds, fails or times out.
C39_EventuallyReturns ==
  (reqs["r1"].pc # "idle")
    ~> (reqs["r1"].pc = "idle" /\ ret.value.kind \in {"snapshot", "null"})

=============================================================================
